---- MODULE Spec2Model ----
(***************************************************************************)
(* Friendship graph, accounts and posts of the recipe-social backend       *)
(* (app/api/friends.py, app/utils/friends.py, app/api/users.py,            *)
(* app/api/posts.py and the models they use).                              *)
(*                                                                         *)
(* The store is the friendships table: a set of rows (id, requester_id,    *)
(* addressee_id, status) under the table's UniqueConstraint on the ordered *)
(* pair (requester_id, addressee_id).  Every endpoint is one action; the   *)
(* HTTP outcome of the last request is kept in resp (status code, detail   *)
(* text, and the row id a response body carries).  created_at/updated_at   *)
(* stamps of a friendships row are not part of the state.                  *)
(*                                                                         *)
(* Query.first() without ORDER BY returns an unspecified matching row, so  *)
(* get_friendship_status is a set of possible results and every caller     *)
(* chooses one of them.                                                    *)
(*                                                                         *)
(* The privacy columns of a user (friends_list_visibility,                 *)
(* discoverable_for_friends), the posts table and the clock are state as   *)
(* well.  No endpoint of these files writes the privacy columns, so the    *)
(* specifications of the read-only friendship handlers (friends list,      *)
(* suggestions, explore) draw them, and the posts the signals read, in     *)
(* their initial state.  A read-only handler keeps the request next to its *)
(* answer in resp.                                                         *)
(*                                                                         *)
(* The handlers of app/api/posts.py create, change, delete and read rows   *)
(* of posts (id, user_id, title for the content columns, cuisine_type,     *)
(* difficulty_level, status, created_at, published_at, archived_at);       *)
(* updated_at is not part of the state.  A request body carries members of *)
(* app.schemas.post.PostStatus, the handlers compare with members of       *)
(* app.models.post.PostStatus.                                             *)
(*                                                                         *)
(* The username cooldown (app/utils/helpers.py) and the profile handlers   *)
(* of app/api/users.py work on accounts, the remaining columns of a users  *)
(* row; there registration (app/api/auth.py) is an action and time passes  *)
(* between requests.  Timestamps are instants of one clock.                *)
(*                                                                         *)
(* In the other specifications registration is not an action: the store   *)
(* starts with registered users (NumUsers of them in the friendship graph) *)
(* and a request may name one more id, which no user ever had.             *)
(***************************************************************************)
EXTENDS Integers, FiniteSets, Sequences, TLC

\* ---- bounds ----
NumUsers == 3          \* registered users at start: ids 1..NumUsers
MaxFriendships == 2    \* friendship ids ever issued: 1..MaxFriendships
NumProcs == 2          \* concurrent requests in the interleaved specifications
MaxPosts == 2          \* post ids ever issued: 1..MaxPosts

\* user ids a request may name; NumUsers + 1 is an id that was never registered
UserIds == 1..(NumUsers + 1)
FriendshipIds == 1..(MaxFriendships + 1)
Procs == 1..NumProcs
PostIds == 1..(MaxPosts + 1)

VARIABLES
    users,             \* ids of the rows of table users
    friendships,       \* rows of table friendships
    nextFriendshipId,  \* next value of the friendships.id sequence
    resp,              \* outcome of the last request handled
    inflight,          \* per concurrent request: position and values read
    friends_list_visibility,   \* users.friends_list_visibility, per user id
    discoverable_for_friends,  \* users.discoverable_for_friends, per user id
    posts,             \* rows of table posts
    nextPostId,        \* next value of the posts.id sequence
    now,               \* datetime.utcnow(): a day in the suggestion stores,
                       \* an instant of 1/TicksPerDay day in the username ones
    accounts           \* the other columns of a users row, per user id

vars == <<users, friendships, nextFriendshipId, resp, inflight,
          friends_list_visibility, discoverable_for_friends, posts,
          nextPostId, now, accounts>>

\* What no friendship handler writes: the columns of users, the table
\* posts, and the clock.
profile == <<friends_list_visibility, discoverable_for_friends, posts,
             nextPostId, now, accounts>>

\* ---- app/models/friendship.py ----
FriendshipStatus == {"pending", "accepted", "declined", "blocked"}

\* A row of table friendships.
Friendship(id, requester_id, addressee_id, status) ==
    [id |-> id, requester_id |-> requester_id, addressee_id |-> addressee_id,
     status |-> status]

\* Python's None for an Optional[Friendship].
NoFriendship == Friendship(0, 0, 0, "none")

\* UniqueConstraint('requester_id', 'addressee_id'): rows is acceptable iff no
\* two distinct rows carry the same ordered pair.
UniqueFriendship(rows) ==
    \A f, g \in rows :
        (f.requester_id = g.requester_id /\ f.addressee_id = g.addressee_id)
            => f.id = g.id

\* ---- responses ----
\* What the handler op answered: status code, detail text, and the id of the
\* friendship a response body carries (0 when it carries none).
Response(op, status, detail, id) ==
    [op |-> op, status |-> status, detail |-> detail, id |-> id]

NoResponse == Response("none", 0, "", 0)

\* A request that is not running (interleaved specifications only); row is
\* the friendships row the request's session has loaded, if any.
Idle == [pc |-> "idle", user |-> 0, arg |-> 0, out |-> NoResponse,
         row |-> NoFriendship]

\* ---- app/utils/friends.py ----
\* The rows the or_(and_(..), and_(..)) filter of get_friendship_status matches.
MatchingFriendships(rows, user1_id, user2_id) ==
    {f \in rows :
        \/ (f.requester_id = user1_id /\ f.addressee_id = user2_id)
        \/ (f.requester_id = user2_id /\ f.addressee_id = user1_id)}

\* The relationship_type get_friendship_status derives from the row it found.
RelationshipType(friendship, user1_id) ==
    IF friendship.status = "accepted" THEN "friend"
    ELSE IF friendship.status = "blocked" THEN "blocked"
    ELSE IF friendship.status = "pending"
         THEN (IF friendship.requester_id = user1_id
               THEN "pending_sent" ELSE "pending_received")
    ELSE IF friendship.status = "declined" THEN "declined"
    ELSE "unknown"

\* get_friendship_status(user1_id, user2_id, db): the set of results
\* (friendship, relationship) it can return over the rows given.
GetFriendshipStatus(rows, user1_id, user2_id) ==
    IF user1_id = user2_id
    THEN {[friendship |-> NoFriendship, relationship |-> "self"]}
    ELSE IF MatchingFriendships(rows, user1_id, user2_id) = {}
    THEN {[friendship |-> NoFriendship, relationship |-> "none"]}
    ELSE {[friendship |-> f, relationship |-> RelationshipType(f, user1_id)] :
            f \in MatchingFriendships(rows, user1_id, user2_id)}

\* ---- app/models/user.py ----
FriendsListVisibility == {"public", "friends_only", "private"}

\* What registration leaves in a user's two privacy columns (the Column
\* defaults): public and True.
DefaultVisibility == [u \in UserIds |-> "public"]
DefaultDiscoverable == [u \in UserIds |-> TRUE]

\* Python's None in a nullable column.
None == "None"

\* None in the nullable DateTime column username_last_changed.
NoTime == -1

\* The columns of a users row that the profile handlers read and write
\* (password_hash is only handed to verify_password).
Account(email, username, username_last_changed, created_at, bio, profile_image_url) ==
    [email |-> email, username |-> username,
     username_last_changed |-> username_last_changed,
     created_at |-> created_at, bio |-> bio,
     profile_image_url |-> profile_image_url]

\* No row under this id.
NoAccount == Account(None, None, NoTime, NoTime, None, None)

\* The row register leaves at instant 0 for the user who gets id u.
DefaultAccount(u) ==
    Account(ToString(u) \o "@x", "user" \o ToString(u), 0, 0, None, None)

\* The rows of the registered users us, all registered at instant 0.
AccountsOf(us) ==
    [u \in UserIds |-> IF u \in us THEN DefaultAccount(u) ELSE NoAccount]

\* The lowest value the posts.id sequence can have when ps are the rows of
\* the table.
PostIdAfter(ps) ==
    IF ps = {} THEN 1
    ELSE 1 + (CHOOSE i \in {p.id : p \in ps} : \A p \in ps : p.id <= i)

Init ==
    /\ users = 1..NumUsers
    /\ friendships = {}
    /\ nextFriendshipId = 1
    /\ resp = NoResponse
    /\ inflight = [p \in Procs |-> Idle]
    /\ friends_list_visibility = DefaultVisibility
    /\ discoverable_for_friends = DefaultDiscoverable
    /\ posts = {}
    /\ nextPostId = PostIdAfter(posts)
    /\ now = 0
    /\ accounts = AccountsOf(users)

\* ---- app/api/friends.py: send_friend_request ----
\* send_friend_request without its pending_received branch.
SendRejection_NoReverseCheck(current_user, user_id, r) ==
    IF user_id \notin users
    THEN Response("send_friend_request", 404, "User not found", 0)
    ELSE IF user_id = current_user
    THEN Response("send_friend_request", 400,
                  "Cannot send friend request to yourself", 0)
    ELSE IF r.friendship # NoFriendship /\ r.relationship = "friend"
    THEN Response("send_friend_request", 400,
                  "Already friends with this user", 0)
    ELSE IF r.friendship # NoFriendship /\ r.relationship = "pending_sent"
    THEN Response("send_friend_request", 400,
                  "Friend request already sent", 0)
    ELSE IF r.friendship # NoFriendship /\ r.relationship = "blocked"
    THEN Response("send_friend_request", 400,
                  "Cannot send friend request to this user", 0)
    ELSE NoResponse

\* Lines 37-57: the HTTPException raised before the insert, given the result r
\* of get_friendship_status; NoResponse when the handler goes on to insert.
SendRejection(current_user, user_id, r) ==
    IF user_id \notin users
    THEN Response("send_friend_request", 404,
                  "User not found", 0)
    ELSE IF user_id = current_user
    THEN Response("send_friend_request", 400,
                  "Cannot send friend request to yourself", 0)
    ELSE IF r.friendship # NoFriendship /\ r.relationship = "friend"
    THEN Response("send_friend_request", 400,
                  "Already friends with this user", 0)
    ELSE IF r.friendship # NoFriendship /\ r.relationship = "pending_sent"
    THEN Response("send_friend_request", 400,
                  "Friend request already sent", 0)
    ELSE IF r.friendship # NoFriendship /\ r.relationship = "pending_received"
    THEN Response("send_friend_request", 400,
                  "This user has already sent you a friend request", 0)
    ELSE IF r.friendship # NoFriendship /\ r.relationship = "blocked"
    THEN Response("send_friend_request", 400,
                  "Cannot send friend request to this user", 0)
    ELSE NoResponse

\* The new row with requester and addressee the wrong way round.
NewRequest_Reversed(id, current_user, user_id) ==
    Friendship(id, user_id, current_user, "pending")

\* The row lines 60-64 build.
NewRequest(id, current_user, user_id) ==
    Friendship(id, current_user, user_id, "pending")

\* Lines 66-77: db.add + db.commit over the rows present at commit time.  A
\* row that breaks the unique constraint makes commit raise IntegrityError,
\* which no handler catches: the request ends 500 and nothing is stored.
SendInsert(rows, nextId, current_user, user_id) ==
    IF UniqueFriendship(rows \cup {NewRequest(nextId, current_user, user_id)})
    THEN [rows |-> rows \cup {NewRequest(nextId, current_user, user_id)},
          next |-> nextId + 1,
          out |-> Response("send_friend_request", 201,
                           "", nextId)]
    ELSE [rows |-> rows, next |-> nextId,
          out |-> Response("send_friend_request", 500,
                           "IntegrityError", 0)]

send_friend_request(current_user, user_id) ==
    /\ current_user \in users
    /\ \E r \in GetFriendshipStatus(friendships, current_user, user_id) :
        LET rej == SendRejection(current_user, user_id, r)
            w == SendInsert(friendships, nextFriendshipId, current_user, user_id)
        IN  IF rej # NoResponse
            THEN /\ resp' = rej
                 /\ UNCHANGED <<friendships, nextFriendshipId>>
            ELSE /\ (w.out.status = 201 => nextFriendshipId <= MaxFriendships)
                 /\ friendships' = w.rows
                 /\ nextFriendshipId' = w.next
                 /\ resp' = w.out
    /\ UNCHANGED <<users, inflight, profile>>

\* ---- accept_friend_request / decline_friend_request ----
\* The row db.query(Friendship).filter(Friendship.id == request_id).first()
\* returns (id is the primary key), or NoFriendship.
FriendshipById(rows, request_id) ==
    IF \E f \in rows : f.id = request_id
    THEN CHOOSE f \in rows : f.id = request_id
    ELSE NoFriendship

\* accept/decline without the check that the caller is the addressee.
RespondRejection_AnyCaller(op, verb, current_user, request_id, friend_request) ==
    IF friend_request = NoFriendship
    THEN Response(op, 404, "Friend request not found", 0)
    ELSE IF friend_request.status # "pending"
    THEN Response(op, 400, "Request is no longer pending", 0)
    ELSE NoResponse

\* accept/decline without the check that the request is still pending.
RespondRejection_NoPendingCheck(op, verb, current_user, request_id, friend_request) ==
    IF friend_request = NoFriendship
    THEN Response(op, 404, "Friend request not found", 0)
    ELSE IF friend_request.addressee_id # current_user
    THEN Response(op, 403, "You can only " \o verb \o " requests sent to you", 0)
    ELSE NoResponse

\* Lines 137-147 (accept) and 173-183 (decline): the checks before the update.
RespondRejection(op, verb, current_user, request_id, friend_request) ==
    IF friend_request = NoFriendship
    THEN Response(op, 404,
                  "Friend request not found", 0)
    ELSE IF friend_request.addressee_id # current_user
    THEN Response(op, 403,
                  "You can only " \o verb \o " requests sent to you", 0)
    ELSE IF friend_request.status # "pending"
    THEN Response(op, 400,
                  "Request is no longer pending", 0)
    ELSE NoResponse

\* friend_request.status = <status>; commit.
WithStatus(rows, friend_request, status) ==
    (rows \ {friend_request}) \cup {[friend_request EXCEPT !.status = status]}

Respond(op, verb, status, current_user, request_id) ==
    LET friend_request == FriendshipById(friendships, request_id)
        rej == RespondRejection(op, verb, current_user, request_id,
                                friend_request)
    IN  IF rej # NoResponse
        THEN /\ resp' = rej
             /\ UNCHANGED friendships
        ELSE /\ friendships' = WithStatus(friendships, friend_request, status)
             /\ resp' = Response(op, 200, "", friend_request.id)

accept_friend_request(current_user, request_id) ==
    /\ current_user \in users
    /\ Respond("accept_friend_request", "accept", "accepted", current_user,
               request_id)
    /\ UNCHANGED <<users, nextFriendshipId, inflight, profile>>

decline_friend_request(current_user, request_id) ==
    /\ current_user \in users
    /\ Respond("decline_friend_request", "decline", "declined", current_user,
               request_id)
    /\ UNCHANGED <<users, nextFriendshipId, inflight, profile>>

\* ---- cancel_friend_request ----
\* cancel_friend_request with the status check ahead of the requester check.
CancelRejection_StatusFirst(current_user, request_id, friend_request) ==
    IF friend_request = NoFriendship
    THEN Response("cancel_friend_request", 404, "Friend request not found", 0)
    ELSE IF friend_request.status # "pending"
    THEN Response("cancel_friend_request", 400, "Can only cancel pending requests", 0)
    ELSE IF friend_request.requester_id # current_user
    THEN Response("cancel_friend_request", 403, "You can only cancel requests you sent", 0)
    ELSE NoResponse

\* Lines 211-221.
CancelRejection(current_user, request_id, friend_request) ==
    IF friend_request = NoFriendship
    THEN Response("cancel_friend_request", 404,
                  "Friend request not found", 0)
    ELSE IF friend_request.requester_id # current_user
    THEN Response("cancel_friend_request", 403,
                  "You can only cancel requests you sent", 0)
    ELSE IF friend_request.status # "pending"
    THEN Response("cancel_friend_request", 400,
                  "Can only cancel pending requests", 0)
    ELSE NoResponse

cancel_friend_request(current_user, request_id) ==
    /\ current_user \in users
    /\ LET friend_request == FriendshipById(friendships, request_id)
           rej == CancelRejection(current_user, request_id, friend_request)
       IN  IF rej # NoResponse
           THEN /\ resp' = rej
                /\ UNCHANGED friendships
           ELSE /\ friendships' = friendships \ {friend_request}
                /\ resp' = Response("cancel_friend_request", 200,
                                    "Friend request cancelled", 0)
    /\ UNCHANGED <<users, nextFriendshipId, inflight, profile>>

\* ---- remove_friend ----
\* remove_friend that takes any existing row for a friendship.
RemoveRejection_AnyEdge(current_user, user_id, r) ==
    IF user_id = current_user
    THEN Response("remove_friend", 400, "Cannot unfriend yourself", 0)
    ELSE IF r.friendship = NoFriendship
    THEN Response("remove_friend", 400,
                  "You are not friends with this user", 0)
    ELSE NoResponse

\* Lines 298-305.
RemoveRejection(current_user, user_id, r) ==
    IF user_id = current_user
    THEN Response("remove_friend", 400,
                  "Cannot unfriend yourself", 0)
    ELSE IF r.friendship = NoFriendship \/ r.relationship # "friend"
    THEN Response("remove_friend", 400,
                  "You are not friends with this user", 0)
    ELSE NoResponse

remove_friend(current_user, user_id) ==
    /\ current_user \in users
    /\ \E r \in GetFriendshipStatus(friendships, current_user, user_id) :
        LET rej == RemoveRejection(current_user, user_id, r)
        IN  IF rej # NoResponse
            THEN /\ resp' = rej
                 /\ UNCHANGED friendships
            ELSE /\ friendships' = friendships \ {r.friendship}
                 /\ resp' = Response("remove_friend", 200, "Friend removed successfully", 0)
    /\ UNCHANGED <<users, nextFriendshipId, inflight, profile>>

\* ---- block_user ----
\* block_user without its "already blocked" check.
BlockRejection_NoBlockedCheck(current_user, user_id, r) ==
    IF user_id = current_user
    THEN Response("block_user", 400, "Cannot block yourself", 0)
    ELSE IF user_id \notin users
    THEN Response("block_user", 404, "User not found", 0)
    ELSE NoResponse

\* block_user without its check that the target is another user.
BlockRejection_NoSelfCheck(current_user, user_id, r) ==
    IF user_id \notin users
    THEN Response("block_user", 404, "User not found", 0)
    ELSE IF r.friendship # NoFriendship /\ r.relationship = "blocked"
    THEN Response("block_user", 400, "User is already blocked", 0)
    ELSE NoResponse

\* Lines 370-382.
BlockRejection(current_user, user_id, r) ==
    IF user_id = current_user
    THEN Response("block_user", 400,
                  "Cannot block yourself", 0)
    ELSE IF user_id \notin users
    THEN Response("block_user", 404,
                  "User not found", 0)
    ELSE IF r.friendship # NoFriendship /\ r.relationship = "blocked"
    THEN Response("block_user", 400,
                  "User is already blocked", 0)
    ELSE NoResponse

\* Lines 385-390: the existing row turned into a block held by current_user.
BlockedFriendship(existing_friendship, current_user) ==
    IF existing_friendship.requester_id # current_user
    THEN Friendship(existing_friendship.id, existing_friendship.addressee_id,
                    existing_friendship.requester_id, "blocked")
    ELSE Friendship(existing_friendship.id, existing_friendship.requester_id,
                    existing_friendship.addressee_id, "blocked")

\* Lines 380-400: the rows block_user commits, given the row r.friendship it
\* found (or none).  A swap that collides with another row of the pair breaks
\* the unique constraint: commit raises IntegrityError and nothing changes.
BlockWrite(rows, nextId, current_user, user_id, r) ==
    LET after == IF r.friendship # NoFriendship
                 THEN (rows \ {r.friendship})
                        \cup {BlockedFriendship(r.friendship, current_user)}
                 ELSE rows \cup {Friendship(nextId, current_user, user_id,
                                            "blocked")}
    IN  IF UniqueFriendship(after)
        THEN [rows |-> after,
              next |-> IF r.friendship # NoFriendship THEN nextId
                       ELSE nextId + 1,
              out |-> Response("block_user", 200,
                               "User has been blocked", 0)]
        ELSE [rows |-> rows, next |-> nextId,
              out |-> Response("block_user", 500,
                               "IntegrityError", 0)]

block_user(current_user, user_id) ==
    /\ current_user \in users
    /\ \E r \in GetFriendshipStatus(friendships, current_user, user_id) :
        LET rej == BlockRejection(current_user, user_id, r)
            w == BlockWrite(friendships, nextFriendshipId, current_user,
                            user_id, r)
        IN  IF rej # NoResponse
            THEN /\ resp' = rej
                 /\ UNCHANGED <<friendships, nextFriendshipId>>
            ELSE /\ (w.next # nextFriendshipId
                        => nextFriendshipId <= MaxFriendships)
                 /\ friendships' = w.rows
                 /\ nextFriendshipId' = w.next
                 /\ resp' = w.out
    /\ UNCHANGED <<users, inflight, profile>>

\* ---- unblock_user ----
\* Lines 412-419.
UnblockRejection(current_user, user_id, r) ==
    IF user_id = current_user
    THEN Response("unblock_user", 400,
                  "Cannot unblock yourself", 0)
    ELSE IF r.friendship = NoFriendship \/ r.relationship # "blocked"
    THEN Response("unblock_user", 400,
                  "User is not blocked", 0)
    ELSE NoResponse

unblock_user(current_user, user_id) ==
    /\ current_user \in users
    /\ \E r \in GetFriendshipStatus(friendships, current_user, user_id) :
        LET rej == UnblockRejection(current_user, user_id, r)
        IN  IF rej # NoResponse
            THEN /\ resp' = rej
                 /\ UNCHANGED friendships
            ELSE /\ friendships' = friendships \ {r.friendship}
                 /\ resp' = Response("unblock_user", 200, "User has been unblocked", 0)
    /\ UNCHANGED <<users, nextFriendshipId, inflight, profile>>

\* ---- get_blocked_users ----
\* Lines 436-442: the users current_user is recorded as having blocked.
GetBlockedUsers(rows, current_user) ==
    {u \in users : \E rel \in rows :
        /\ rel.requester_id = current_user
        /\ rel.status = "blocked"
        /\ rel.addressee_id = u}

\* ---- app/api/users.py: delete_current_user_account ----
\* The rows of User.sent_requests alone.
FriendshipsOf_SentOnly(rows, user_id) ==
    {f \in rows : f.requester_id = user_id}

\* cascade="all, delete-orphan" on User.sent_requests and
\* User.received_requests (app/models/user.py): the rows that go with a user.
FriendshipsOf(rows, user_id) ==
    {f \in rows : f.requester_id = user_id \/ f.addressee_id = user_id}

\* cascade="all, delete-orphan" on User.posts: the posts that go with a user.
PostsOf(rows, user_id) == {p \in rows : p.user_id = user_id}

delete_current_user_account(current_user, password_ok, confirm_deletion) ==
    /\ current_user \in users
    /\ IF ~password_ok
       THEN /\ resp' = Response("delete_current_user_account", 400, "Incorrect password", 0)
            /\ UNCHANGED <<users, friendships, posts, accounts>>
       ELSE IF ~confirm_deletion
       THEN /\ resp' = Response("delete_current_user_account", 400, "Deletion must be explicitly confirmed", 0)
            /\ UNCHANGED <<users, friendships, posts, accounts>>
       ELSE /\ users' = users \ {current_user}
            /\ friendships' = friendships \ FriendshipsOf(friendships,
                                                          current_user)
            /\ posts' = posts \ PostsOf(posts, current_user)
            /\ accounts' = [accounts EXCEPT ![current_user] = NoAccount]
            /\ resp' = Response("delete_current_user_account", 200, "Account has been permanently deleted", 0)
    /\ UNCHANGED <<nextFriendshipId, inflight, friends_list_visibility,
                    discoverable_for_friends, nextPostId, now>>

\* ---- the store under one request at a time ----
Next ==
    \/ \E u \in UserIds, t \in UserIds : send_friend_request(u, t)
    \/ \E u \in UserIds, i \in FriendshipIds : accept_friend_request(u, i)
    \/ \E u \in UserIds, i \in FriendshipIds : decline_friend_request(u, i)
    \/ \E u \in UserIds, i \in FriendshipIds : cancel_friend_request(u, i)
    \/ \E u \in UserIds, t \in UserIds : remove_friend(u, t)
    \/ \E u \in UserIds, t \in UserIds : block_user(u, t)
    \/ \E u \in UserIds, t \in UserIds : unblock_user(u, t)
    \/ \E u \in UserIds, pw \in BOOLEAN, c \in BOOLEAN :
            delete_current_user_account(u, pw, c)

Spec == Init /\ [][Next]_vars

\* ---- get_friendship_status_endpoint ----
\* The FriendshipStatusResponse of lines 341-346 and 354-360, next to the
\* request it answers; code is the HTTP status.
FriendshipStatusResponse(request, status, is_friend, can_send_request, request_id, relationship_type) ==
    [op |-> "get_friendship_status_endpoint", request |-> request,
     code |-> 200, detail |-> "", status |-> status, is_friend |-> is_friend,
     can_send_request |-> can_send_request, request_id |-> request_id,
     relationship_type |-> relationship_type]

\* The HTTPException of line 350.
StatusNotFound(request) ==
    [op |-> "get_friendship_status_endpoint", request |-> request,
     code |-> 404, detail |-> "User not found", status |-> None,
     is_friend |-> FALSE, can_send_request |-> FALSE, request_id |-> 0,
     relationship_type |-> None]

get_friendship_status_endpoint(current_user, user_id) ==
    /\ current_user \in users
    /\ LET request == [current_user |-> current_user, user_id |-> user_id]
       IN  IF user_id = current_user
           THEN resp' = FriendshipStatusResponse(request, None, FALSE, FALSE,
                                                 0, "self")
           ELSE IF user_id \notin users
           THEN resp' = StatusNotFound(request)
           ELSE \E r \in GetFriendshipStatus(friendships, current_user,
                                             user_id) :
                    resp' = FriendshipStatusResponse(request,
                        IF r.friendship # NoFriendship
                        THEN r.friendship.status ELSE None,
                        r.relationship = "friend",
                        r.relationship = "none",
                        IF r.friendship # NoFriendship
                        THEN r.friendship.id ELSE 0,
                        r.relationship)
    /\ UNCHANGED <<users, friendships, nextFriendshipId, inflight, profile>>

NextStatus ==
    \/ Next
    \/ \E u \in UserIds, t \in UserIds : get_friendship_status_endpoint(u, t)

SpecStatus == Init /\ [][NextStatus]_vars

\* ---- send_friend_request, its reads and its commit as separate steps ----
\* Each request runs in its own session (get_db); the handler's SELECTs and
\* its INSERT/COMMIT are separate statements, so another request's commit can
\* fall between them.

\* Lines 37-57 of request p: the reads and the checks.
SendBegin(p, current_user, user_id) ==
    /\ inflight[p].pc = "idle"
    /\ current_user \in users
    /\ \E r \in GetFriendshipStatus(friendships, current_user, user_id) :
        LET rej == SendRejection(current_user, user_id, r)
        IN  IF rej # NoResponse
            THEN /\ inflight' = [inflight EXCEPT ![p] =
                        [pc |-> "done", user |-> current_user,
                         arg |-> user_id, out |-> rej,
                         row |-> NoFriendship]]
                 /\ resp' = rej
            ELSE /\ inflight' = [inflight EXCEPT ![p] =
                        [pc |-> "insert", user |-> current_user,
                         arg |-> user_id, out |-> NoResponse,
                         row |-> NoFriendship]]
                 /\ UNCHANGED resp
    /\ UNCHANGED <<users, friendships, nextFriendshipId, profile>>

\* Lines 59-77 of request p: the insert and its commit, against the rows the
\* table holds by then.
SendCommit(p) ==
    /\ inflight[p].pc = "insert"
    /\ LET w == SendInsert(friendships, nextFriendshipId, inflight[p].user,
                           inflight[p].arg)
       IN  /\ (w.out.status = 201 => nextFriendshipId <= MaxFriendships)
           /\ friendships' = w.rows
           /\ nextFriendshipId' = w.next
           /\ resp' = w.out
           /\ inflight' = [inflight EXCEPT ![p].pc = "done", ![p].out = w.out]
    /\ UNCHANGED <<users, profile>>

NextSend ==
    \/ \E p \in Procs, u \in UserIds, t \in UserIds : SendBegin(p, u, t)
    \/ \E p \in Procs : SendCommit(p)

SpecSend == Init /\ [][NextSend]_vars

\* ---- accept and cancel, their reads and their commits as separate steps ----
\* Lines 137-147 of request p: the row read by id and the checks on it.
AcceptBegin(p, current_user, request_id) ==
    /\ inflight[p].pc = "idle"
    /\ current_user \in users
    /\ LET rej == RespondRejection("accept_friend_request", "accept",
                        current_user, request_id,
                        FriendshipById(friendships, request_id))
       IN  IF rej # NoResponse
           THEN /\ inflight' = [inflight EXCEPT ![p] =
                        [pc |-> "done", user |-> current_user,
                         arg |-> request_id, out |-> rej,
                         row |-> NoFriendship]]
                /\ resp' = rej
           ELSE /\ inflight' = [inflight EXCEPT ![p] =
                        [pc |-> "update", user |-> current_user,
                         arg |-> request_id, out |-> NoResponse,
                         row |-> NoFriendship]]
                /\ UNCHANGED resp
    /\ UNCHANGED <<users, friendships, nextFriendshipId, profile>>

\* Lines 150-154 of request p: commit flushes UPDATE friendships SET status
\* WHERE id; a row that is gone by then matches nothing and the flush raises
\* (StaleDataError), which the framework answers with 500.
AcceptCommit(p) ==
    /\ inflight[p].pc = "update"
    /\ LET friend_request == FriendshipById(friendships, inflight[p].arg)
           out == IF friend_request = NoFriendship
                  THEN Response("accept_friend_request", 500,
                                "Internal Server Error", 0)
                  ELSE Response("accept_friend_request", 200, "",
                                inflight[p].arg)
       IN  /\ friendships' =
                IF friend_request = NoFriendship THEN friendships
                ELSE WithStatus(friendships, friend_request, "accepted")
           /\ resp' = out
           /\ inflight' = [inflight EXCEPT ![p].pc = "done", ![p].out = out]
    /\ UNCHANGED <<users, nextFriendshipId, profile>>

\* Lines 211-221 of request p.
CancelBegin(p, current_user, request_id) ==
    /\ inflight[p].pc = "idle"
    /\ current_user \in users
    /\ LET rej == CancelRejection(current_user, request_id,
                        FriendshipById(friendships, request_id))
       IN  IF rej # NoResponse
           THEN /\ inflight' = [inflight EXCEPT ![p] =
                        [pc |-> "done", user |-> current_user,
                         arg |-> request_id, out |-> rej,
                         row |-> NoFriendship]]
                /\ resp' = rej
           ELSE /\ inflight' = [inflight EXCEPT ![p] =
                        [pc |-> "delete", user |-> current_user,
                         arg |-> request_id, out |-> NoResponse,
                         row |-> NoFriendship]]
                /\ UNCHANGED resp
    /\ UNCHANGED <<users, friendships, nextFriendshipId, profile>>

\* Lines 224-227 of request p: commit flushes DELETE FROM friendships WHERE
\* id, whatever the row's status is by then; a row that is gone only draws a
\* warning.
CancelCommit(p) ==
    /\ inflight[p].pc = "delete"
    /\ LET out == Response("cancel_friend_request", 200,
                           "Friend request cancelled", 0)
       IN  /\ friendships' = {f \in friendships : f.id # inflight[p].arg}
           /\ resp' = out
           /\ inflight' = [inflight EXCEPT ![p].pc = "done", ![p].out = out]
    /\ UNCHANGED <<users, nextFriendshipId, profile>>

NextSettle ==
    \/ \E u \in UserIds, t \in UserIds : send_friend_request(u, t)
    \/ \E p \in Procs, u \in UserIds, i \in FriendshipIds :
            AcceptBegin(p, u, i)
    \/ \E p \in Procs : AcceptCommit(p)
    \/ \E p \in Procs, u \in UserIds, i \in FriendshipIds :
            CancelBegin(p, u, i)
    \/ \E p \in Procs : CancelCommit(p)

SpecSettle == Init /\ [][NextSettle]_vars

\* ---- block_user, its reads and its commit as separate steps ----
\* Lines 370-382 of request p: the reads and the checks; the session keeps
\* the row it loaded.
BlockBegin(p, current_user, user_id) ==
    /\ inflight[p].pc = "idle"
    /\ current_user \in users
    /\ \E r \in GetFriendshipStatus(friendships, current_user, user_id) :
        LET rej == BlockRejection(current_user, user_id, r)
        IN  IF rej # NoResponse
            THEN /\ inflight' = [inflight EXCEPT ![p] =
                        [pc |-> "done", user |-> current_user,
                         arg |-> user_id, out |-> rej,
                         row |-> r.friendship]]
                 /\ resp' = rej
            ELSE /\ inflight' = [inflight EXCEPT ![p] =
                        [pc |-> "write", user |-> current_user,
                         arg |-> user_id, out |-> NoResponse,
                         row |-> r.friendship]]
                 /\ UNCHANGED resp
    /\ UNCHANGED <<users, friendships, nextFriendshipId, profile>>

\* Lines 385-390 as the flush sends them: UPDATE friendships SET status (and
\* the two swapped columns, when the row loaded had the other user as
\* requester) WHERE id; the columns the handler did not assign keep what the
\* table holds by then.
BlockUpdated(stored, loaded, current_user) ==
    IF loaded.requester_id # current_user
    THEN Friendship(stored.id, loaded.addressee_id, loaded.requester_id,
                    "blocked")
    ELSE Friendship(stored.id, stored.requester_id, stored.addressee_id,
                    "blocked")

\* Lines 384-400 of request p: the flush and the commit against the rows the
\* table holds by then.  With a loaded row it is the UPDATE above (a row that
\* is gone matches nothing and the flush raises StaleDataError); without one
\* it is the INSERT of lines 393-398.  Either fails on the unique constraint
\* with IntegrityError.
BlockCommit(p) ==
    /\ inflight[p].pc = "write"
    /\ LET loaded == inflight[p].row
           stored == FriendshipById(friendships, loaded.id)
           after == IF loaded = NoFriendship
                    THEN friendships \cup
                            {Friendship(nextFriendshipId, inflight[p].user,
                                        inflight[p].arg, "blocked")}
                    ELSE IF stored = NoFriendship THEN friendships
                    ELSE (friendships \ {stored})
                            \cup {BlockUpdated(stored, loaded,
                                               inflight[p].user)}
           out == IF loaded # NoFriendship /\ stored = NoFriendship
                  THEN Response("block_user", 500, "StaleDataError", 0)
                  ELSE IF ~UniqueFriendship(after)
                  THEN Response("block_user", 500, "IntegrityError", 0)
                  ELSE Response("block_user", 200, "User has been blocked", 0)
       IN  /\ (loaded = NoFriendship /\ out.status = 200)
                => nextFriendshipId <= MaxFriendships
           /\ friendships' = IF out.status = 200 THEN after ELSE friendships
           /\ nextFriendshipId' = IF loaded = NoFriendship /\ out.status = 200
                                  THEN nextFriendshipId + 1
                                  ELSE nextFriendshipId
           /\ resp' = out
           /\ inflight' = [inflight EXCEPT ![p].pc = "done", ![p].out = out]
    /\ UNCHANGED <<users, profile>>

NextBlock ==
    \/ \E u \in UserIds, t \in UserIds : send_friend_request(u, t)
    \/ \E p \in Procs, u \in UserIds, t \in UserIds : BlockBegin(p, u, t)
    \/ \E p \in Procs : BlockCommit(p)

SpecBlock == Init /\ [][NextBlock]_vars

\* ---- friends lists and their visibility ----
\* No handler in the source writes users.friends_list_visibility or
\* users.discoverable_for_friends; the values a row carries beyond the
\* defaults are inputs, drawn when the store is set up.

\* can_view_friends_list that treats friends_only like public.
CanViewFriendsList_FriendsOnlyOpen(rows, visibility, viewer, profile_owner) ==
    IF viewer = profile_owner THEN {TRUE}
    ELSE IF visibility[profile_owner] \in {"public", "friends_only"} THEN {TRUE}
    ELSE {FALSE}

\* can_view_friends_list(viewer, profile_owner, db): the set of answers it
\* can give over the rows given (one per row .first() can return).
CanViewFriendsList(rows, visibility, viewer, profile_owner) ==
    IF viewer = profile_owner THEN {TRUE}
    ELSE IF visibility[profile_owner] = "public" THEN {TRUE}
    ELSE IF visibility[profile_owner] = "friends_only"
    THEN {r.relationship = "friend" :
            r \in GetFriendshipStatus(rows, viewer, profile_owner)}
    ELSE {FALSE}

\* friend_ids of get_friends_list: the other end of every accepted row of
\* user_id.
FriendIds(rows, user_id) ==
    {IF friendship.requester_id = user_id
     THEN friendship.addressee_id ELSE friendship.requester_id :
        friendship \in {f \in rows :
            /\ (f.requester_id = user_id \/ f.addressee_id = user_id)
            /\ f.status = "accepted"}}

\* get_friends_list(user_id, db), as the set of users it returns.
GetFriendsList(rows, user_id) ==
    {u \in users : u \in FriendIds(rows, user_id)}

\* The orders in which Query.all() without ORDER BY can return the rows S.
Orderings(S) ==
    {q \in [1..Cardinality(S) -> S] : \A x \in S : \E i \in DOMAIN q : q[i] = x}

\* Python's list[offset:offset + limit].
Slice(list, offset, limit) ==
    [i \in 1..(IF Len(list) - offset < 0 THEN 0
               ELSE IF Len(list) - offset < limit THEN Len(list) - offset
               ELSE limit) |-> list[offset + i]]

\* The request a listing answers: caller, owner asked for, limit, offset.
ListRequest(current_user, user_id, limit, offset) ==
    [current_user |-> current_user, user_id |-> user_id, limit |-> limit,
     offset |-> offset]

\* FriendsListResponse, kept together with the request it answers.
FriendsListResponse(request, friends, total_count, can_view) ==
    [op |-> "get_user_friends_list", status |-> 200, detail |-> "", id |-> 0,
     request |-> request,
     friends |-> friends, total_count |-> total_count, can_view |-> can_view]

\* HTTPException(status_code=404, detail="User not found") of line 264.
ListNotFound(request) ==
    [op |-> "get_user_friends_list", status |-> 404,
     detail |-> "User not found", id |-> 0, request |-> request]

\* limit and offset a request carries: Query(50, ge=1, le=100), Query(0, ge=0).
ListLimits == {1, 50}
ListOffsets == {0, 1}

get_user_friends_list(current_user, user_id, limit, offset) ==
    /\ current_user \in users
    /\ LET request == ListRequest(current_user, user_id, limit, offset)
       IN  IF user_id \notin users
           THEN resp' = ListNotFound(request)
           ELSE \E can_view \in CanViewFriendsList(friendships,
                        friends_list_visibility, current_user, user_id) :
                IF ~can_view
                THEN resp' = FriendsListResponse(request, <<>>, 0, FALSE)
                ELSE \E friends \in
                            Orderings(GetFriendsList(friendships, user_id)) :
                        resp' = FriendsListResponse(request,
                                    Slice(friends, offset, limit),
                                    Len(friends), TRUE)
    /\ UNCHANGED <<users, friendships, nextFriendshipId, inflight, profile>>

\* The store with one of the three visibility settings on its users.
InitView ==
    /\ users = 1..NumUsers
    /\ friendships = {}
    /\ nextFriendshipId = 1
    /\ resp = NoResponse
    /\ inflight = [p \in Procs |-> Idle]
    /\ friends_list_visibility \in
            {[u \in UserIds |-> v] : v \in FriendsListVisibility}
    /\ discoverable_for_friends = DefaultDiscoverable
    /\ posts = {}
    /\ nextPostId = PostIdAfter(posts)
    /\ now = 0
    /\ accounts = AccountsOf(users)

NextView ==
    \/ Next
    \/ \E u \in UserIds, t \in UserIds, limit \in ListLimits,
          offset \in ListOffsets : get_user_friends_list(u, t, limit, offset)

SpecView == InitView /\ [][NextView]_vars

\* ---- app/models/post.py ----
\* A row of table posts as the constructor leaves it when it is given the
\* columns the suggestion signals read: title stands for the content columns,
\* published_at and archived_at are None.  created_at is counted in days.
Post(id, user_id, cuisine_type, difficulty_level, status, created_at) ==
    [id |-> id, user_id |-> user_id, cuisine_type |-> cuisine_type,
     difficulty_level |-> difficulty_level, status |-> status,
     created_at |-> created_at, title |-> "Recipe", published_at |-> NoTime,
     archived_at |-> NoTime]

\* ---- app/utils/friends.py: suggestions ----
\* get_mutual_friends(user1_id, user2_id, db), as a set of users.
GetMutualFriends(rows, user1_id, user2_id) ==
    {u \in users :
        u \in {friend \in GetFriendsList(rows, user1_id) :
                    friend \in GetFriendsList(rows, user2_id)}}

\* get_user_cuisine_types(user_id, db), as a set (the query is DISTINCT).
GetUserCuisineTypes(ps, user_id) ==
    {p.cuisine_type :
        p \in {q \in ps : /\ q.user_id = user_id
                          /\ q.cuisine_type # None
                          /\ q.status = "published"}} \ {""}

\* get_user_difficulty_levels(user_id, db), as a set.
GetUserDifficultyLevels(ps, user_id) ==
    {p.difficulty_level :
        p \in {q \in ps : /\ q.user_id = user_id
                          /\ q.difficulty_level # None
                          /\ q.status = "published"}} \ {""}

\* days of is_recently_active(user_id, db, days=30).
RecentDays == 30

\* is_recently_active(user_id, db) on the day today.
IsRecentlyActive(ps, user_id, today) ==
    \E recent_post \in ps :
        /\ recent_post.user_id = user_id
        /\ recent_post.created_at >= today - RecentDays

\* f"{mutual_count} mutual friend{'s' if mutual_count != 1 else ''}"
MutualFragment(mutual_count) ==
    ToString(mutual_count) \o " mutual friend"
        \o (IF mutual_count # 1 THEN "s" ELSE "")

\* f"Cooks {', '.join(list(common_cuisines)[:2])} cuisine": one string per
\* order in which list() can walk the set.
CuisineFragments(common_cuisines) ==
    {"Cooks " \o (IF Len(two) = 1 THEN two[1] ELSE two[1] \o ", " \o two[2])
        \o " cuisine" :
        two \in {Slice(l, 0, 2) : l \in Orderings(common_cuisines)}}

\* calculate_suggestion_score that counts a mutual friend like a cuisine.
SuggestionScore_MutualAsCuisine(rows, ps, current_user, potential_friend, today) ==
    Cardinality(GetMutualFriends(rows, current_user, potential_friend)) * 5
    + Cardinality(GetUserCuisineTypes(ps, current_user) \cap GetUserCuisineTypes(ps, potential_friend)) * 5
    + Cardinality(GetUserDifficultyLevels(ps, current_user) \cap GetUserDifficultyLevels(ps, potential_friend)) * 3
    + (IF IsRecentlyActive(ps, potential_friend, today) THEN 2 ELSE 0)

\* The score calculate_suggestion_score adds up (lines 93-122).
SuggestionScore(rows, ps, current_user, potential_friend, today) ==
    LET mutual_count ==
            Cardinality(GetMutualFriends(rows, current_user, potential_friend))
        common_cuisines ==
            GetUserCuisineTypes(ps, current_user)
                \cap GetUserCuisineTypes(ps, potential_friend)
        common_difficulties ==
            GetUserDifficultyLevels(ps, current_user)
                \cap GetUserDifficultyLevels(ps, potential_friend)
    IN  (IF mutual_count > 0 THEN mutual_count * 10 ELSE 0)
        + (IF common_cuisines # {} THEN Cardinality(common_cuisines) * 5 ELSE 0)
        + (IF common_difficulties # {}
           THEN Cardinality(common_difficulties) * 3 ELSE 0)
        + (IF IsRecentlyActive(ps, potential_friend, today) THEN 2 ELSE 0)

\* The reasons calculate_suggestion_score can give: the fragments it joins
\* with " • ", kept as a sequence, or "New user".
SuggestionReasons(rows, ps, current_user, potential_friend, today) ==
    LET mutual_count ==
            Cardinality(GetMutualFriends(rows, current_user, potential_friend))
        common_cuisines ==
            GetUserCuisineTypes(ps, current_user)
                \cap GetUserCuisineTypes(ps, potential_friend)
        common_difficulties ==
            GetUserDifficultyLevels(ps, current_user)
                \cap GetUserDifficultyLevels(ps, potential_friend)
        m == IF mutual_count > 0 THEN <<MutualFragment(mutual_count)>>
             ELSE <<>>
        d == IF common_difficulties # {} THEN <<"Similar cooking difficulty">>
             ELSE <<>>
        a == IF IsRecentlyActive(ps, potential_friend, today)
             THEN <<"Active user">> ELSE <<>>
    IN  IF common_cuisines = {}
        THEN {IF m \o d \o a = <<>> THEN <<"New user">> ELSE m \o d \o a}
        ELSE {m \o <<c>> \o d \o a : c \in CuisineFragments(common_cuisines)}

\* calculate_suggestion_score(current_user, potential_friend, db): the
\* (score, reason) results it can return.
CalculateSuggestionScore(rows, ps, current_user, potential_friend, today) ==
    {[score |-> SuggestionScore(rows, ps, current_user, potential_friend, today),
      reason |-> r] :
        r \in SuggestionReasons(rows, ps, current_user, potential_friend, today)}

\* The dict lines 205-211 append for potential_friend with result sr.
Suggestion(rows, ps, user, potential_friend, sr) ==
    [user |-> potential_friend,
     score |-> sr.score,
     reason |-> sr.reason,
     mutual_friends_count |->
        Cardinality(GetMutualFriends(rows, user, potential_friend)),
     common_cuisines |->
        GetUserCuisineTypes(ps, user)
            \cap GetUserCuisineTypes(ps, potential_friend)]

\* excluded_user_ids of lines 172-184.
ExcludedUserIds(rows, user) ==
    {user} \cup {IF friendship.requester_id = user
                 THEN friendship.addressee_id ELSE friendship.requester_id :
                    friendship \in FriendshipsOf(rows, user)}

\* potential_friends without the filter on discoverable_for_friends.
PotentialFriends_AnyFlag(rows, discoverable, user) ==
    {u \in users : u \notin ExcludedUserIds(rows, user)}

\* potential_friends of lines 187-192.
PotentialFriends(rows, discoverable, user) ==
    {u \in users : u \notin ExcludedUserIds(rows, user) /\ discoverable[u] = TRUE}

\* get_friend_suggestions without the sort of line 214: the dicts in any
\* order .all() gave, cut to limit.
SuggestionLists_Unsorted(rows, ps, discoverable, user, limit, today) ==
    LET dicts(c) ==
            {Suggestion(rows, ps, user, c, sr) :
                sr \in {x \in CalculateSuggestionScore(rows, ps, user, c, today) :
                            x.score > 0}}
        all == UNION {dicts(c) :
                        c \in PotentialFriends(rows, discoverable, user)}
        scored == {c \in PotentialFriends(rows, discoverable, user) :
                        dicts(c) # {}}
        suggestions ==
            {l \in [1..Cardinality(scored) -> all] :
                \A c \in scored : \E i \in DOMAIN l : l[i].user = c}
    IN  {Slice(l, 0, limit) : l \in suggestions}

\* Lines 171-215 of get_friend_suggestions: the lists it can build.  Each is
\* one dict per potential friend with a positive score, in an order the
\* stable sort by score can leave (ties in the order .all() gave), cut to
\* limit.
SuggestionLists(rows, ps, discoverable, user, limit, today) ==
    LET dicts(c) ==
            {Suggestion(rows, ps, user, c, sr) :
                sr \in {x \in CalculateSuggestionScore(rows, ps, user, c, today) :
                            x.score > 0}}
        all == UNION {dicts(c) :
                        c \in PotentialFriends(rows, discoverable, user)}
        scored == {c \in PotentialFriends(rows, discoverable, user) :
                        dicts(c) # {}}
        suggestions ==
            {l \in [1..Cardinality(scored) -> all] :
                /\ \A c \in scored : \E i \in DOMAIN l : l[i].user = c
                /\ \A i, j \in DOMAIN l : i < j => l[i].score >= l[j].score}
    IN  {Slice(l, 0, limit) : l \in suggestions}

\* get_friend_suggestions without its first check.
GetFriendSuggestions_NoFlagCheck(rows, ps, discoverable, user, limit, today) ==
    SuggestionLists(rows, ps, discoverable, user, limit, today)

\* get_friend_suggestions(user, db, limit): the lists it can return.
GetFriendSuggestions(rows, ps, discoverable, user, limit, today) ==
    IF ~discoverable[user]
    THEN {<<>>}
    ELSE SuggestionLists(rows, ps, discoverable, user, limit, today)

\* str.lower() on the cuisine strings in use.
Lower(str) ==
    IF str \in {"Italian", "ITALIAN"} THEN "italian"
    ELSE IF str \in {"Mexican", "MEXICAN"} THEN "mexican"
    ELSE str

\* ---- app/api/friends.py: suggestions and explore ----
\* The request a suggestion list answers.
SuggestRequest(current_user, cuisine_filter, limit) ==
    [current_user |-> current_user, cuisine_filter |-> cuisine_filter,
     limit |-> limit]

\* List[FriendSuggestion], kept together with the request it answers.
SuggestionsResponse(op, request, suggestions) ==
    [op |-> op, status |-> 200, detail |-> "", id |-> 0,
     request |-> request, suggestions |-> suggestions]

\* limit: Query(10, ge=1, le=20) and Query(20, ge=1, le=50);
\* cuisine_filter: Optional[str].
SuggestLimits == {1, 10}
ExploreLimits == {1, 20}
CuisineFilters == {None, "ITALIAN"}

get_friend_suggestions_endpoint(current_user, limit) ==
    /\ current_user \in users
    /\ LET request == SuggestRequest(current_user, None, limit)
       IN  IF ~discoverable_for_friends[current_user]
           THEN resp' = SuggestionsResponse("get_friend_suggestions_endpoint",
                                            request, <<>>)
           ELSE \E suggestions_data \in
                    GetFriendSuggestions(friendships, posts,
                        discoverable_for_friends, current_user, limit, now) :
                resp' = SuggestionsResponse("get_friend_suggestions_endpoint",
                                            request, suggestions_data)
    /\ UNCHANGED <<users, friendships, nextFriendshipId, inflight, profile>>

\* Lines 484-489 with a condition that holds for every suggestion.
FilterByCuisine_KeepAll(suggestions_data, cuisine_filter) ==
    suggestions_data

\* Lines 484-489: the suggestions whose common cuisines hold the filter,
\* compared in lower case, in their order.
FilterByCuisine(suggestions_data, cuisine_filter) ==
    LET keep(i) == Lower(cuisine_filter)
                    \in {Lower(cuisine) :
                            cuisine \in suggestions_data[i].common_cuisines}
        F[i \in 0..Len(suggestions_data)] ==
            IF i = 0 THEN <<>>
            ELSE IF keep(i) THEN Append(F[i - 1], suggestions_data[i])
            ELSE F[i - 1]
    IN  F[Len(suggestions_data)]

explore_friends(current_user, cuisine_filter, limit) ==
    /\ current_user \in users
    /\ \E suggestions_data \in
            GetFriendSuggestions(friendships, posts, discoverable_for_friends,
                                 current_user, limit * 2, now) :
        resp' = SuggestionsResponse("explore_friends",
                    SuggestRequest(current_user, cuisine_filter, limit),
                    Slice(IF cuisine_filter # None /\ cuisine_filter # ""
                          THEN FilterByCuisine(suggestions_data, cuisine_filter)
                          ELSE suggestions_data,
                          0, limit))
    /\ UNCHANGED <<users, friendships, nextFriendshipId, inflight, profile>>

\* ---- the stores the suggestion requests are put to ----
\* The days a store is looked at: the last day on which a post of day 0 is
\* recent, and the first on which it is not.
Days == {RecentDays, RecentDays + 1}

\* Rows the friendship handlers can leave between users 1, 2 and 3: a friend
\* (3) that users 1 and 2 may share, and the ways 1 and 2 themselves may be
\* joined.
SuggestRowPool ==
    {Friendship(1, 1, 3, "accepted"), Friendship(2, 3, 2, "accepted"),
     Friendship(3, 1, 2, "pending"), Friendship(4, 1, 2, "declined"),
     Friendship(5, 2, 1, "blocked"), Friendship(6, 2, 1, "accepted")}

\* The tables over a pool with one row per pair of users.
OneRowPerPair(pool) ==
    {rows \in SUBSET pool :
        \A f, g \in rows :
            {f.requester_id, f.addressee_id} = {g.requester_id, g.addressee_id}
                => f = g}

\* Posts users 1 and 2 may have, created on day 0.
SuggestPostPool ==
    {Post(1, 1, "italian", "easy", "published", 0),
     Post(2, 2, "italian", "medium", "published", 0),
     Post(3, 2, "mexican", "easy", "draft", 0)}

\* The settings of discoverable_for_friends: at most one user turned off.
SuggestFlags ==
    {d \in [UserIds -> BOOLEAN] :
        Cardinality({u \in 1..NumUsers : ~d[u]}) <= 1 /\ \A u \in UserIds \ (1..NumUsers) : d[u]}

\* A store with a table of friendships, posts and settings as above.
InitSuggest ==
    /\ users = 1..NumUsers
    /\ friendships \in OneRowPerPair(SuggestRowPool)
    /\ nextFriendshipId = Cardinality(SuggestRowPool) + 1
    /\ resp = NoResponse
    /\ inflight = [p \in Procs |-> Idle]
    /\ friends_list_visibility = DefaultVisibility
    /\ discoverable_for_friends \in SuggestFlags
    /\ posts \in SUBSET SuggestPostPool
    /\ nextPostId = PostIdAfter(posts)
    /\ now \in Days
    /\ accounts = AccountsOf(users)

NextSuggest ==
    \/ \E u \in UserIds, limit \in SuggestLimits :
            get_friend_suggestions_endpoint(u, limit)
    \/ \E u \in UserIds, c \in CuisineFilters, limit \in ExploreLimits :
            explore_friends(u, c, limit)

SpecSuggest == InitSuggest /\ [][NextSuggest]_vars

\* ---- the stores the suggestion score is computed over ----
\* Rows between users 1..4: two friends (3 and 4) that users 1 and 2 may
\* share, one of them possibly only asked.
ScoreRowPool ==
    {Friendship(1, 1, 3, "accepted"), Friendship(2, 4, 1, "accepted"),
     Friendship(3, 3, 2, "accepted"), Friendship(4, 2, 4, "accepted"),
     Friendship(5, 2, 4, "pending")}

\* Posts users 1 and 2 may have, created on day 0.
ScorePostPool ==
    {Post(1, 1, "italian", "easy", "published", 0),
     Post(2, 2, "italian", "medium", "published", 0),
     Post(3, 2, "mexican", "easy", "draft", 0),
     Post(4, 1, "mexican", None, "published", 0),
     Post(5, 2, "mexican", "easy", "published", 0)}

\* A store with NumUsers + 1 registered users, all discoverable.
InitScore ==
    /\ users = UserIds
    /\ friendships \in OneRowPerPair(ScoreRowPool)
    /\ nextFriendshipId = Cardinality(ScoreRowPool) + 1
    /\ resp = NoResponse
    /\ inflight = [p \in Procs |-> Idle]
    /\ friends_list_visibility = DefaultVisibility
    /\ discoverable_for_friends = DefaultDiscoverable
    /\ posts \in SUBSET ScorePostPool
    /\ nextPostId = PostIdAfter(posts)
    /\ now \in Days
    /\ accounts = AccountsOf(users)

NextScore ==
    \E u \in UserIds, limit \in SuggestLimits :
        get_friend_suggestions_endpoint(u, limit)

SpecScore == InitScore /\ [][NextScore]_vars

\* ---- the stores explore is put to ----
\* Rows that leave user 1 with three candidates, or fewer.
ExploreRowPool ==
    {Friendship(1, 2, 3, "accepted"), Friendship(2, 1, 4, "pending")}

\* Posts created on day 0 and day 1: user 1 cooks italian and mexican, users
\* 2 and 4 mexican, user 3 italian.
ExplorePostPool ==
    {Post(1, 1, "italian", None, "published", 0),
     Post(2, 1, "mexican", "easy", "published", 0),
     Post(3, 4, "mexican", "easy", "published", 1),
     Post(4, 2, "mexican", "hard", "published", 1),
     Post(5, 3, "italian", "hard", "published", 0)}

InitExplore ==
    /\ users = UserIds
    /\ friendships \in SUBSET ExploreRowPool
    /\ nextFriendshipId = Cardinality(ExploreRowPool) + 1
    /\ resp = NoResponse
    /\ inflight = [p \in Procs |-> Idle]
    /\ friends_list_visibility = DefaultVisibility
    /\ discoverable_for_friends = DefaultDiscoverable
    /\ posts \in SUBSET ExplorePostPool
    /\ nextPostId = PostIdAfter(posts)
    /\ now \in Days
    /\ accounts = AccountsOf(users)

NextExplore ==
    \E u \in UserIds, c \in CuisineFilters, limit \in ExploreLimits :
        explore_friends(u, c, limit)

SpecExplore == InitExplore /\ [][NextExplore]_vars

\* ---- app/utils/helpers.py ----
\* Instants are counted in units of 1/TicksPerDay day, so that a timedelta
\* can be a whole number of days or fall between two.
TicksPerDay == 2

\* timedelta(days=months * 30), in instants.
RequiredWait(months) == months * 30 * TicksPerDay

\* can_change_username whose comparison is > instead of >=.
CanChangeUsername_StrictlyLater(user, months, utcnow) ==
    IF user.username_last_changed = NoTime
    THEN [can_change |-> TRUE, days_remaining |-> 0]
    ELSE IF utcnow - user.username_last_changed > RequiredWait(months)
    THEN [can_change |-> TRUE, days_remaining |-> 0]
    ELSE [can_change |-> FALSE,
          days_remaining |->
            ((RequiredWait(months) - (utcnow - user.username_last_changed))
                \div TicksPerDay) + 1]

\* can_change_username(user, months) at instant utcnow; timedelta.days is
\* the whole days of a positive timedelta.
CanChangeUsername(user, months, utcnow) ==
    IF user.username_last_changed = NoTime
    THEN [can_change |-> TRUE, days_remaining |-> 0]
    ELSE LET time_since_change == utcnow - user.username_last_changed
             required_wait == RequiredWait(months)
         IN  IF time_since_change >= required_wait
             THEN [can_change |-> TRUE, days_remaining |-> 0]
             ELSE LET remaining_time == required_wait - time_since_change
                  IN  [can_change |-> FALSE,
                       days_remaining |->
                            (remaining_time \div TicksPerDay) + 1]

\* get_next_username_change_date(user, months) at instant utcnow.
GetNextUsernameChangeDate(user, months, utcnow) ==
    IF user.username_last_changed = NoTime
    THEN utcnow
    ELSE user.username_last_changed + RequiredWait(months)

\* ---- app/api/users.py: username change info and profile update ----
\* months=3 in both handlers.
CooldownMonths == 3

\* UsernameChangeInfo, kept together with the user it is about (id); NoTime
\* stands for None in its Optional fields.
UsernameChangeInfo(current_user, can_change, days_until_eligible, last_changed, next_eligible_date) ==
    [op |-> "get_username_change_info", status |-> 200, detail |-> "",
     id |-> current_user, can_change |-> can_change,
     days_until_eligible |-> days_until_eligible,
     last_changed |-> last_changed,
     next_eligible_date |-> next_eligible_date]

get_username_change_info(current_user) ==
    /\ current_user \in users
    /\ LET c == CanChangeUsername(accounts[current_user], CooldownMonths, now)
       IN  resp' = UsernameChangeInfo(current_user, c.can_change,
                    IF ~c.can_change THEN c.days_remaining ELSE NoTime,
                    accounts[current_user].username_last_changed,
                    IF ~c.can_change
                    THEN GetNextUsernameChangeDate(accounts[current_user],
                                                   CooldownMonths, now)
                    ELSE NoTime)
    /\ UNCHANGED <<users, friendships, nextFriendshipId, inflight, profile>>

\* The query parameters of PUT /users/me.
UpdateRequest(current_user, username, bio, profile_image_url) ==
    [current_user |-> current_user, username |-> username, bio |-> bio,
     profile_image_url |-> profile_image_url]

\* The outcome of update_current_user, kept together with its request; a
\* refusal for the cooldown carries the days of its detail text.
UpdateResponse(request, status, detail, days_remaining) ==
    [op |-> "update_current_user", status |-> status, detail |-> detail,
     id |-> request.current_user, request |-> request,
     days_remaining |-> days_remaining]

\* Lines 70-74: bio and profile_image_url, where given.
WithOtherFields(user, bio, profile_image_url) ==
    [user EXCEPT
        !.bio = IF bio # None THEN bio ELSE @,
        !.profile_image_url =
            IF profile_image_url # None THEN profile_image_url ELSE @]

\* The username assigned without the stamp of the change.
Renamed_NoStamp(user, username, utcnow) ==
    [user EXCEPT !.username = username]

\* Lines 67-68: the new username and the instant of the change.
Renamed(user, username, utcnow) ==
    [user EXCEPT !.username = username, !.username_last_changed = utcnow]

update_current_user(current_user, username, bio, profile_image_url) ==
    /\ current_user \in users
    /\ LET user == accounts[current_user]
           request == UpdateRequest(current_user, username, bio,
                                    profile_image_url)
           c == CanChangeUsername(user, CooldownMonths, now)
       IN  IF username # None /\ username # user.username
           THEN IF ~c.can_change
                THEN /\ resp' = UpdateResponse(request, 400,
                            "Username can only be changed every 3 months",
                            c.days_remaining)
                     /\ UNCHANGED accounts
                ELSE IF \E existing_user \in users \ {current_user} :
                            accounts[existing_user].username = username
                THEN /\ resp' = UpdateResponse(request, 400,
                                               "Username already taken", 0)
                     /\ UNCHANGED accounts
                ELSE /\ accounts' = [accounts EXCEPT ![current_user] =
                            WithOtherFields(Renamed(user, username, now),
                                            bio, profile_image_url)]
                     /\ resp' = UpdateResponse(request, 200, "", 0)
           ELSE /\ accounts' = [accounts EXCEPT ![current_user] =
                        WithOtherFields(user, bio, profile_image_url)]
                /\ resp' = UpdateResponse(request, 200, "", 0)
    /\ UNCHANGED <<users, friendships, nextFriendshipId, inflight,
                    friends_list_visibility, discoverable_for_friends, posts,
                    nextPostId, now>>

\* ---- app/api/auth.py: register ----
\* users ever registered in the username stores
MaxAccounts == 2

\* The next value of the users.id sequence while no row has been deleted.
NewUserId(us) == Cardinality(us) + 1

register(email, username, bio) ==
    IF \E u \in users : accounts[u].email = email
    THEN /\ resp' = Response("register", 400, "Email already registered", 0)
         /\ UNCHANGED <<users, friendships, nextFriendshipId, inflight,
                         profile>>
    ELSE IF \E u \in users : accounts[u].username = username
    THEN /\ resp' = Response("register", 400, "Username already taken", 0)
         /\ UNCHANGED <<users, friendships, nextFriendshipId, inflight,
                         profile>>
    ELSE /\ Cardinality(users) < MaxAccounts
         /\ users' = users \cup {NewUserId(users)}
         /\ accounts' = [accounts EXCEPT ![NewUserId(users)] =
                Account(email, username, now, now, bio, None)]
         /\ resp' = Response("register", 201, "", NewUserId(users))
         /\ UNCHANGED <<friendships, nextFriendshipId, inflight,
                         friends_list_visibility, discoverable_for_friends,
                         posts, nextPostId, now>>

\* ---- the inputs of the cooldown ----
\* Instants around 30, 60, 89, 90 and 91 days after instant 0.
Times ==
    {0, 1, TicksPerDay, 30 * TicksPerDay, 60 * TicksPerDay,
     89 * TicksPerDay, 89 * TicksPerDay + 1, 90 * TicksPerDay,
     90 * TicksPerDay + 1, 91 * TicksPerDay}

\* One user whose username_last_changed is None or any of the instants,
\* looked at on any of the instants.
InitCooldown ==
    /\ users = {1}
    /\ friendships = {}
    /\ nextFriendshipId = 1
    /\ resp = NoResponse
    /\ inflight = [p \in Procs |-> Idle]
    /\ friends_list_visibility = DefaultVisibility
    /\ discoverable_for_friends = DefaultDiscoverable
    /\ posts = {}
    /\ nextPostId = PostIdAfter(posts)
    /\ now \in Times
    /\ \E last \in {NoTime} \cup {t \in Times : t <= now} :
        accounts = [AccountsOf(users) EXCEPT ![1].username_last_changed = last]

NextCooldown == \E u \in UserIds : get_username_change_info(u)

SpecCooldown == InitCooldown /\ [][NextCooldown]_vars

\* ---- registration, profile updates and the clock ----
Emails == {"a@x", "b@x"}
Usernames == {"ann", "bob"}
Bios == {None, "bio"}
ProfileImageUrls == {None, "url"}

\* The instants the requests of the username store arrive at.
ArrivalTimes ==
    {0, 1, 90 * TicksPerDay, 90 * TicksPerDay + 1, 180 * TicksPerDay}

\* Time passes between two requests.
Tick ==
    /\ \E t \in ArrivalTimes : t > now /\ now' = t
    /\ UNCHANGED <<users, friendships, nextFriendshipId, resp, inflight,
                    friends_list_visibility, discoverable_for_friends, posts,
                    nextPostId, accounts>>

\* An empty store at instant 0.
InitAccount ==
    /\ users = {}
    /\ friendships = {}
    /\ nextFriendshipId = 1
    /\ resp = NoResponse
    /\ inflight = [p \in Procs |-> Idle]
    /\ friends_list_visibility = DefaultVisibility
    /\ discoverable_for_friends = DefaultDiscoverable
    /\ posts = {}
    /\ nextPostId = PostIdAfter(posts)
    /\ now = 0
    /\ accounts = AccountsOf(users)

NextAccount ==
    \/ \E e \in Emails, n \in Usernames, b \in Bios : register(e, n, b)
    \/ \E u \in UserIds, n \in Usernames \cup {None}, b \in Bios,
          i \in ProfileImageUrls : update_current_user(u, n, b, i)
    \/ \E u \in UserIds : get_username_change_info(u)
    \/ Tick

SpecAccount == InitAccount /\ [][NextAccount]_vars

\* ---- the store with posts, under one request at a time ----
\* Posts users 1 and 2 may have when the requests start.
DeletePostPool ==
    {Post(1, 1, "italian", "easy", "published", 0),
     Post(2, 2, "mexican", "easy", "draft", 0)}

InitDelete ==
    /\ users = 1..NumUsers
    /\ friendships = {}
    /\ nextFriendshipId = 1
    /\ resp = NoResponse
    /\ inflight = [p \in Procs |-> Idle]
    /\ friends_list_visibility = DefaultVisibility
    /\ discoverable_for_friends = DefaultDiscoverable
    /\ posts \in SUBSET DeletePostPool
    /\ nextPostId = PostIdAfter(posts)
    /\ now = 0
    /\ accounts = AccountsOf(users)

SpecDelete == InitDelete /\ [][Next]_vars

\* ---- app/api/posts.py ----
\* The statuses of a post (app/models/post.py, app/schemas/post.py).
PostStatus == {"draft", "published", "archived"}

\* A member of the PostStatus a request body is validated into
\* (app/schemas/post.py: class PostStatus(str, Enum)).
SchemaPostStatus(name) == [enum |-> "app.schemas.post.PostStatus", name |-> name]

\* A member of the PostStatus the handlers import and the column loads
\* (app/models/post.py: class PostStatus(enum.Enum)).  Members of the two
\* classes are different objects whatever their names; the Enum column
\* stores a member of either class under its name.
ModelPostStatus(name) == [enum |-> "app.models.post.PostStatus", name |-> name]

\* A field a PostUpdate body does not set (exclude_unset=True drops it).
Unset == "Unset"

\* Python's None for an Optional[Post].
NoPost == Post(0, 0, None, None, "none", NoTime)

\* The row db.query(Post).filter(Post.id == post_id).first() returns.
PostById(rows, post_id) ==
    IF \E q \in rows : q.id = post_id
    THEN CHOOSE q \in rows : q.id = post_id
    ELSE NoPost

\* create_post, lines 75-86.
create_post(current_user, title, cuisine_type, difficulty_level, status) ==
    /\ current_user \in users
    /\ nextPostId <= MaxPosts
    /\ posts' = posts \cup
            {[Post(nextPostId, current_user, cuisine_type, difficulty_level,
                   SchemaPostStatus(status).name, now)
                EXCEPT !.title = title,
                       !.published_at =
                            IF SchemaPostStatus(status)
                                    = ModelPostStatus("published")
                            THEN now ELSE NoTime]}
    /\ nextPostId' = nextPostId + 1
    /\ resp' = Response("create_post", 201, "", nextPostId)
    /\ UNCHANGED <<users, friendships, nextFriendshipId, inflight,
                    friends_list_visibility, discoverable_for_friends, now,
                    accounts>>

\* The owner-only handlers without their check of the owner.
PostRejection_AnyUser(op, verb, current_user, post) ==
    IF post = NoPost THEN Response(op, 404, "Post not found", 0) ELSE NoResponse

\* Lines 210-215, 240-245, 266-271, 292-297, 318-323: the checks every
\* owner-only handler starts with.
PostRejection(op, verb, current_user, post) ==
    IF post = NoPost
    THEN Response(op, 404, "Post not found", 0)
    ELSE IF post.user_id # current_user
    THEN Response(op, 403, "You can only " \o verb \o " your own posts", 0)
    ELSE NoResponse

\* What every post handler leaves alone.
PostFrame ==
    UNCHANGED <<users, friendships, nextFriendshipId, inflight,
                friends_list_visibility, discoverable_for_friends,
                nextPostId, now, accounts>>

\* Lines 219-223: the stamp the loop sets for the field status of the body,
\* value being the member the body carries.
UpdateStamped(post, value) ==
    IF value = ModelPostStatus("published")
            /\ ModelPostStatus(post.status) # ModelPostStatus("published")
    THEN [post EXCEPT !.published_at = now]
    ELSE IF value = ModelPostStatus("archived")
    THEN [post EXCEPT !.archived_at = now]
    ELSE post

\* Lines 218-225: the row after the loop over the fields the body sets.
Updated(post, update_data) ==
    LET titled == IF update_data.title = Unset THEN post
                  ELSE [post EXCEPT !.title = update_data.title]
    IN  IF update_data.status = Unset THEN titled
        ELSE [UpdateStamped(titled, SchemaPostStatus(update_data.status))
                EXCEPT !.status = SchemaPostStatus(update_data.status).name]

update_post(current_user, post_id, update_data) ==
    /\ current_user \in users
    /\ LET post == PostById(posts, post_id)
           rej == PostRejection("update_post", "edit", current_user, post)
       IN  IF rej # NoResponse
           THEN /\ resp' = rej
                /\ UNCHANGED posts
           ELSE /\ posts' = (posts \ {post}) \cup {Updated(post, update_data)}
                /\ resp' = Response("update_post", 200, "", post_id)
    /\ PostFrame

\* Lines 247-248, 273-274, 299-300: the status a post must have, after the
\* owner-only checks.
StatusRejection(op, verb, from, detail, current_user, post) ==
    IF PostRejection(op, verb, current_user, post) # NoResponse
    THEN PostRejection(op, verb, current_user, post)
    ELSE IF ModelPostStatus(post.status) # ModelPostStatus(from)
    THEN Response(op, 400, detail, 0)
    ELSE NoResponse

\* Lines 250-251.
Published(post) == [post EXCEPT !.status = "published", !.published_at = now]

publish_post(current_user, post_id) ==
    /\ current_user \in users
    /\ LET post == PostById(posts, post_id)
           rej == StatusRejection("publish_post", "publish", "draft",
                        "Only draft posts can be published", current_user,
                        post)
       IN  IF rej # NoResponse
           THEN /\ resp' = rej
                /\ UNCHANGED posts
           ELSE /\ posts' = (posts \ {post}) \cup {Published(post)}
                /\ resp' = Response("publish_post", 200, "", post_id)
    /\ PostFrame

\* Lines 276-277.
Archived(post) == [post EXCEPT !.status = "archived", !.archived_at = now]

archive_post(current_user, post_id) ==
    /\ current_user \in users
    /\ LET post == PostById(posts, post_id)
           rej == StatusRejection("archive_post", "archive", "published",
                        "Only published posts can be archived", current_user,
                        post)
       IN  IF rej # NoResponse
           THEN /\ resp' = rej
                /\ UNCHANGED posts
           ELSE /\ posts' = (posts \ {post}) \cup {Archived(post)}
                /\ resp' = Response("archive_post", 200, "", post_id)
    /\ PostFrame

\* Lines 302-303.
Unarchived(post) == [post EXCEPT !.status = "published", !.archived_at = NoTime]

unarchive_post(current_user, post_id) ==
    /\ current_user \in users
    /\ LET post == PostById(posts, post_id)
           rej == StatusRejection("unarchive_post", "unarchive", "archived",
                        "Only archived posts can be unarchived", current_user,
                        post)
       IN  IF rej # NoResponse
           THEN /\ resp' = rej
                /\ UNCHANGED posts
           ELSE /\ posts' = (posts \ {post}) \cup {Unarchived(post)}
                /\ resp' = Response("unarchive_post", 200, "", post_id)
    /\ PostFrame

delete_post(current_user, post_id) ==
    /\ current_user \in users
    /\ LET post == PostById(posts, post_id)
           rej == PostRejection("delete_post", "delete", current_user, post)
       IN  IF rej # NoResponse
           THEN /\ resp' = rej
                /\ UNCHANGED posts
           ELSE /\ posts' = posts \ {post}
                /\ resp' = Response("delete_post", 200,
                                    "Post has been permanently deleted", 0)
    /\ PostFrame

\* ---- the inputs of the post handlers ----
\* The bodies of update_post: a title, a status, both or neither.
PostUpdates == [title : {Unset, "Soup"}, status : {Unset} \cup PostStatus]

\* Two registered users and no post.
InitPosts ==
    /\ users = 1..2
    /\ friendships = {}
    /\ nextFriendshipId = 1
    /\ resp = NoResponse
    /\ inflight = [p \in Procs |-> Idle]
    /\ friends_list_visibility = DefaultVisibility
    /\ discoverable_for_friends = DefaultDiscoverable
    /\ posts = {}
    /\ nextPostId = PostIdAfter(posts)
    /\ now = 0
    /\ accounts = AccountsOf(users)

NextPosts ==
    \/ \E u \in UserIds, st \in PostStatus :
            create_post(u, "Pasta", "Italian", "easy", st)
    \/ \E u \in UserIds, i \in PostIds, d \in PostUpdates :
            update_post(u, i, d)
    \/ \E u \in UserIds, i \in PostIds : publish_post(u, i)
    \/ \E u \in UserIds, i \in PostIds : archive_post(u, i)
    \/ \E u \in UserIds, i \in PostIds : unarchive_post(u, i)
    \/ \E u \in UserIds, i \in PostIds : delete_post(u, i)

SpecPosts == InitPosts /\ [][NextPosts]_vars

\* ---- get_post and get_public_posts ----
\* What a read of posts answers, next to its request: the post of get_post
\* (NoPost on an error) and the list of get_public_posts.
PostsResponse(op, request, status, detail, post, list) ==
    [op |-> op, request |-> request, status |-> status, detail |-> detail,
     post |-> post, posts |-> list]

\* The permission check hiding drafts only.
PostHidden_DraftOnly(post, current_user) ==
    ModelPostStatus(post.status) = ModelPostStatus("draft") /\ post.user_id # current_user

\* Line 196: the post is not published and not the caller's.
PostHidden(post, current_user) ==
    /\ ModelPostStatus(post.status) # ModelPostStatus("published")
    /\ post.user_id # current_user

get_post(current_user, post_id) ==
    /\ current_user \in users
    /\ LET request == [current_user |-> current_user, post_id |-> post_id]
           post == PostById(posts, post_id)
       IN  IF post = NoPost
           THEN resp' = PostsResponse("get_post", request, 404,
                                      "Post not found", NoPost, <<>>)
           ELSE IF PostHidden(post, current_user)
           THEN resp' = PostsResponse("get_post", request, 404,
                                      "Post not found", NoPost, <<>>)
           ELSE resp' = PostsResponse("get_post", request, 200, "", post,
                                      <<>>)
    /\ UNCHANGED posts
    /\ PostFrame

\* The lower-case fragments of a string that the requests ask for.
LowerFragments(str) ==
    IF Lower(str) = "italian" THEN {"ital", "italian"}
    ELSE IF str \in {"Pasta", "pasta"} THEN {"pas", "pasta"}
    ELSE IF str \in {"Soup", "soup"} THEN {"soup"}
    ELSE {Lower(str)}

\* column.ilike("%" + fragment + "%"); a NULL column matches nothing.
ILike(column, fragment) ==
    column # None /\ Lower(fragment) \in LowerFragments(column)

\* Lines 100-111: the published posts that pass the filters given.
PublicPosts(rows, cuisine_type, difficulty, search) ==
    {q \in rows :
        /\ q.status = "published"
        /\ cuisine_type # None => ILike(q.cuisine_type, cuisine_type)
        /\ difficulty # None => q.difficulty_level = difficulty
        /\ search # None => ILike(q.title, search)}

\* order_by(Post.published_at.desc()): later stamps first, equal stamps in
\* any order, rows without a stamp all first or all last (the place of NULL
\* depends on the database).
PublishedAtDesc(S) ==
    {o \in Orderings(S) :
        /\ \A i, j \in DOMAIN o :
            (i < j /\ o[i].published_at # NoTime /\ o[j].published_at # NoTime)
                => o[i].published_at >= o[j].published_at
        /\ \/ \A i, j \in DOMAIN o :
                (o[i].published_at = NoTime /\ o[j].published_at # NoTime)
                    => i < j
           \/ \A i, j \in DOMAIN o :
                (o[i].published_at = NoTime /\ o[j].published_at # NoTime)
                    => i > j}

\* create_post_summary: the columns a PostSummary carries.
PostSummary(post) ==
    [id |-> post.id, title |-> post.title,
     difficulty_level |-> post.difficulty_level,
     cuisine_type |-> post.cuisine_type, status |-> post.status,
     created_at |-> post.created_at, published_at |-> post.published_at,
     author |-> post.user_id]

get_public_posts(current_user, limit, offset, cuisine_type, difficulty, search) ==
    /\ current_user \in users
    /\ LET request == [current_user |-> current_user, limit |-> limit,
                       offset |-> offset, cuisine_type |-> cuisine_type,
                       difficulty |-> difficulty, search |-> search]
       IN  \E o \in PublishedAtDesc(PublicPosts(posts, cuisine_type,
                                                difficulty, search)) :
                resp' = PostsResponse("get_public_posts", request, 200, "",
                            NoPost,
                            [i \in DOMAIN Slice(o, offset, limit) |->
                                PostSummary(Slice(o, offset, limit)[i])])
    /\ UNCHANGED posts
    /\ PostFrame

\* ---- the inputs of the reads of posts ----
FeedLimits == {1, 2}
FeedOffsets == {0, 1}

\* The title, cuisine_type and difficulty_level of the posts created.
FeedBodies ==
    {<<"Pasta", "Italian", "easy">>, <<"Soup", "Italian", "hard">>,
     <<"Pasta", "mexican", "hard">>}

\* The filters of a feed request: cuisine_type, difficulty, search.
FeedFilters ==
    {<<None, None, None>>, <<"ital", None, None>>, <<None, "easy", None>>,
     <<None, None, "pas">>}

NextFeed ==
    \/ \E u \in UserIds, b \in FeedBodies, st \in PostStatus :
            create_post(u, b[1], b[2], b[3], st)
    \/ \E u \in UserIds, i \in PostIds : publish_post(u, i)
    \/ \E u \in UserIds, i \in PostIds : archive_post(u, i)
    \/ \E u \in UserIds, i \in PostIds : get_post(u, i)
    \/ \E u \in UserIds, l \in FeedLimits, o \in FeedOffsets,
          f \in FeedFilters : get_public_posts(u, l, o, f[1], f[2], f[3])

SpecFeed == InitPosts /\ [][NextFeed]_vars

\* ---- claims ----
\* The two users a row joins, as an unordered pair.
PairOf(f) == {f.requester_id, f.addressee_id}

\* C1: in every state reachable by the friendship operations the store holds
\* at most one row per unordered pair of users: a row (A, B) and a row (B, A)
\* never exist together.
C1_OneEdgePerPair ==
    \A f, g \in friendships : PairOf(f) = PairOf(g) => f = g

\* C2: a send_friend_request between two users who already share a row, in
\* any status and either direction, is refused and stores nothing.
C2_SendRefusedWhenEdgeExists ==
    [][\A u, t \in UserIds :
        (/\ send_friend_request(u, t)
         /\ u # t
         /\ MatchingFriendships(friendships, u, t) # {})
        => (resp'.status # 201 /\ friendships' = friendships)]_vars

\* C3: two send_friend_request calls for the same unordered pair whose reads
\* and inserts interleave never both succeed, and the pair ends with exactly
\* one row.
C3_ConcurrentSendsExclusive ==
    \A p, q \in Procs :
        (/\ p # q
         /\ inflight[p].pc = "done" /\ inflight[q].pc = "done"
         /\ inflight[p].user # inflight[p].arg
         /\ {inflight[p].user, inflight[p].arg}
                = {inflight[q].user, inflight[q].arg}
         /\ inflight[p].out.status = 201)
        => /\ inflight[q].out.status # 201
           /\ Cardinality(MatchingFriendships(friendships, inflight[p].user,
                                              inflight[p].arg)) = 1

\* The status code every precondition failure of the handlers carries
\* (self-request, already friends, already sent, already blocked, ...).
InvalidStateStatus == 400

\* The state C4 is about: one pending row, from t to u, and no other row
\* between the two.
OnlyPendingFrom(t, u) ==
    \E f \in friendships :
        /\ MatchingFriendships(friendships, u, t) = {f}
        /\ f.status = "pending"
        /\ f.requester_id = t
        /\ f.addressee_id = u

\* C4 as written: after A's request to B, B's request to A fails with an
\* outcome other than the one precondition failures carry (a Conflict, apart
\* from InvalidState), and the pending row stays.
C4_ReverseSendIsConflict ==
    [][\A u, t \in UserIds :
        (/\ resp'.op = "send_friend_request"
         /\ send_friend_request(u, t)
         /\ OnlyPendingFrom(t, u))
        => /\ resp'.status # 201
           /\ resp'.status # InvalidStateStatus
           /\ friendships' = friendships]_vars

\* C4 as amended: after A's request to B, B's request to A fails with the
\* same 400 status as every other precondition failure, told apart only by
\* its detail text, and the pending row stays.
C4_ReverseSendRefused ==
    [][\A u, t \in UserIds :
        (/\ resp'.op = "send_friend_request"
         /\ send_friend_request(u, t)
         /\ OnlyPendingFrom(t, u))
        => /\ resp'.status = InvalidStateStatus
           /\ resp'.detail = "This user has already sent you a friend request"
           /\ friendships' = friendships]_vars

\* A reverse request has just been refused over a lone pending row.
C4_Witness ==
    /\ resp.op = "send_friend_request"
    /\ resp.status = 400
    /\ resp.detail = "This user has already sent you a friend request"
    /\ \E u, t \in users : u # t /\ OnlyPendingFrom(t, u)

\* The ids of the rows in the table.
IdsOf(rows) == {f.id : f \in rows}

\* C5: send_friend_request(from, to) with from # to, an existing target and
\* no row between the two answers 201 and adds exactly one row, pending, with
\* requester from and addressee to, under a fresh id, leaving every other row
\* as it was; with from = to or a missing target it fails and stores nothing.
C5_SendCreatesPending ==
    [][\A u, t \in UserIds :
        (resp'.op = "send_friend_request" /\ send_friend_request(u, t))
        => IF t \notin users \/ u = t
           THEN /\ resp'.status = (IF t \notin users THEN 404 ELSE 400)
                /\ friendships' = friendships
           ELSE MatchingFriendships(friendships, u, t) = {}
                => /\ resp'.status = 201
                   /\ resp'.id \notin IdsOf(friendships)
                   /\ friendships' = friendships
                        \cup {Friendship(resp'.id, u, t, "pending")}]_vars

\* A request has just been stored, next to a row of another pair.
C5_Witness ==
    /\ resp.op = "send_friend_request"
    /\ resp.status = 201
    /\ \E f, g \in friendships :
        /\ f.id = resp.id
        /\ f.status = "pending"
        /\ PairOf(g) # PairOf(f)

\* C6: accept/decline succeeds exactly when the row exists, the caller is its
\* addressee and it is pending; it then only sets the status (accepted or
\* declined), keeping requester and addressee; otherwise it fails and the
\* table is unchanged.
C6_RespondByAddresseeOnPending ==
    [][\A u \in UserIds, i \in FriendshipIds :
        /\ (resp'.op = "accept_friend_request" /\ accept_friend_request(u, i))
            => IF \E f \in friendships :
                    f.id = i /\ f.addressee_id = u /\ f.status = "pending"
               THEN /\ resp'.status = 200
                    /\ \E f \in friendships :
                        /\ f.id = i
                        /\ friendships' = (friendships \ {f}) \cup
                            {Friendship(i, f.requester_id, f.addressee_id,
                                        "accepted")}
               ELSE resp'.status \in {400, 403, 404}
                        /\ friendships' = friendships
        /\ (resp'.op = "decline_friend_request"
                /\ decline_friend_request(u, i))
            => IF \E f \in friendships :
                    f.id = i /\ f.addressee_id = u /\ f.status = "pending"
               THEN /\ resp'.status = 200
                    /\ \E f \in friendships :
                        /\ f.id = i
                        /\ friendships' = (friendships \ {f}) \cup
                            {Friendship(i, f.requester_id, f.addressee_id,
                                        "declined")}
               ELSE resp'.status \in {400, 403, 404}
                        /\ friendships' = friendships]_vars

\* A request has just been accepted, next to another row.
C6_Witness ==
    /\ resp.op = "accept_friend_request"
    /\ resp.status = 200
    /\ \E f, g \in friendships :
        f.id = resp.id /\ f.status = "accepted" /\ g # f

\* C7: cancel succeeds only for the requester of a pending row, deletes that
\* row, and leaves the pair with relationship none; in every other case it
\* fails and the table is unchanged.
C7_CancelLeavesNone ==
    [][\A u \in UserIds, i \in FriendshipIds :
        (resp'.op = "cancel_friend_request" /\ cancel_friend_request(u, i))
        => IF \E f \in friendships :
                f.id = i /\ f.requester_id = u /\ f.status = "pending"
           THEN /\ resp'.status = 200
                /\ \E f \in friendships :
                    /\ f.id = i
                    /\ friendships' = friendships \ {f}
                    /\ \A r \in GetFriendshipStatus(friendships',
                            f.requester_id, f.addressee_id) :
                        r.relationship = "none"
           ELSE resp'.status \in {400, 403, 404}
                    /\ friendships' = friendships]_vars

\* The accepted rows between two users.
AcceptedBetween(rows, u, t) ==
    {f \in MatchingFriendships(rows, u, t) : f.status = "accepted"}

\* C8: remove_friend succeeds only over an accepted row between caller and
\* target, and then deletes exactly that row; with no accepted row between
\* them (none, pending, declined, blocked) or on oneself it fails with 400;
\* a failure never changes the table; and an accepted row can be removed by
\* its requester as well as by its addressee.
C8_UnfriendOnlyFriends ==
    [][/\ \A u, t \in UserIds :
            (resp'.op = "remove_friend" /\ remove_friend(u, t))
            => /\ resp'.status \in {200, 400}
               /\ resp'.status = 200
                    => \E f \in AcceptedBetween(friendships, u, t) :
                            friendships' = friendships \ {f}
               /\ resp'.status = 400 => friendships' = friendships
               /\ (u = t \/ AcceptedBetween(friendships, u, t) = {})
                    => resp'.status = 400
       /\ \A f \in friendships :
            f.status = "accepted"
            => /\ \E r \in GetFriendshipStatus(friendships, f.requester_id,
                                               f.addressee_id) :
                    /\ r.friendship = f
                    /\ RemoveRejection(f.requester_id, f.addressee_id, r)
                        = NoResponse
               /\ \E r \in GetFriendshipStatus(friendships, f.addressee_id,
                                               f.requester_id) :
                    /\ r.friendship = f
                    /\ RemoveRejection(f.addressee_id, f.requester_id, r)
                        = NoResponse]_vars

\* A friend has just been removed: no accepted row is left although a
\* request had been accepted before.
C8_Witness ==
    /\ resp.op = "remove_friend"
    /\ resp.status = 200
    /\ nextFriendshipId > 1
    /\ \A f \in friendships : f.status # "accepted"

\* C9: after a successful block_user(blocker, target) the pair has exactly
\* one row, blocked, with requester blocker and addressee target; so target
\* is among the users blocker has blocked and blocker is not among target's.
C9_BlockLeavesOneBlockedEdge ==
    [][\A u, t \in UserIds :
        (resp'.op = "block_user" /\ resp'.status = 200 /\ block_user(u, t))
        => /\ MatchingFriendships(friendships', u, t)
                = {f \in friendships' :
                    /\ f.requester_id = u
                    /\ f.addressee_id = t
                    /\ f.status = "blocked"}
           /\ Cardinality(MatchingFriendships(friendships', u, t)) = 1
           /\ t \in GetBlockedUsers(friendships', u)
           /\ u \notin GetBlockedUsers(friendships', t)]_vars

\* The blocked rows between two users.
BlockedBetween(rows, u, t) ==
    {f \in MatchingFriendships(rows, u, t) : f.status = "blocked"}

\* C10: a successful block_user(blocker, target) turns every pending row
\* between the two into a blocked row with requester blocker and addressee
\* target; and while a blocked row lies between two users every
\* send_friend_request between them, in either direction, fails and leaves
\* the table as it was.
C10_BlockedPendingRefusesSend ==
    [][\A u, t \in UserIds :
        /\ (resp'.op = "block_user" /\ resp'.status = 200 /\ block_user(u, t))
            => \A f \in MatchingFriendships(friendships, u, t) :
                f.status = "pending"
                => Friendship(f.id, u, t, "blocked") \in friendships'
        /\ (resp'.op = "send_friend_request" /\ send_friend_request(u, t)
                /\ BlockedBetween(friendships, u, t) # {})
            => /\ resp'.status \notin {200, 201}
               /\ friendships' = friendships]_vars

\* C11: block_user(blocker, target) fails and leaves the table as it was when
\* blocker = target, when target is no user, or when a blocked row lies
\* between the two, whichever of them holds the block.
C11_BlockRefusedWhenBlocked ==
    [][\A u, t \in UserIds :
        (/\ resp'.op = "block_user"
         /\ block_user(u, t)
         /\ (u = t \/ t \notin users \/ BlockedBetween(friendships, u, t) # {}))
        => /\ resp'.status # 200
           /\ friendships' = friendships]_vars

\* C12: unblock_user succeeds only over a blocked row between caller and
\* target, deletes it, and leaves the pair with relationship none; in every
\* other case it fails and the table is unchanged.
C12_UnblockLeavesNone ==
    [][\A u, t \in UserIds :
        (resp'.op = "unblock_user" /\ unblock_user(u, t))
        => IF resp'.status = 200
           THEN \E f \in BlockedBetween(friendships, u, t) :
                    /\ friendships' = friendships \ {f}
                    /\ \A r \in GetFriendshipStatus(friendships', u, t) :
                            r.relationship = "none"
           ELSE /\ resp'.status = 400
                /\ friendships' = friendships]_vars

\* The step is a successful unblock_user by some user.
UnblockStep ==
    /\ resp'.op = "unblock_user"
    /\ resp'.status = 200
    /\ \E u, t \in UserIds : unblock_user(u, t)

\* C13: a blocked row between two users who both still exist stays in the
\* table as it is (same id, requester, addressee, status) under every step
\* that is not a successful unblock_user: no send, accept, decline, cancel,
\* remove_friend or block_user by any user alters or removes it.
C13_BlockedUntilUnblock ==
    [][\A f \in friendships :
        (/\ f.status = "blocked"
         /\ PairOf(f) \subseteq users'
         /\ ~UnblockStep)
        => f \in friendships']_vars

\* A block_user by the blocked party has just been refused while the block
\* stands, recorded for the other user.
C13_Witness ==
    /\ resp.op = "block_user"
    /\ resp.status = 400
    /\ resp.detail = "User is already blocked"
    /\ \E f \in friendships : f.status = "blocked"

\* C14: a row carries status accepted or declined after a step only if it
\* carried it before, or it was pending before and the step is the accept
\* (decline) of that request by its addressee; the row keeps its id,
\* requester and addressee; an accept or decline of a request by anyone else
\* changes nothing.
C14_OnlyAddresseeSettles ==
    [][/\ \A g \in friendships' :
            (g.status \in {"accepted", "declined"} /\ g \notin friendships)
            => \E f \in friendships :
                /\ f.id = g.id
                /\ f.status = "pending"
                /\ f.requester_id = g.requester_id
                /\ f.addressee_id = g.addressee_id
                /\ IF g.status = "accepted"
                   THEN accept_friend_request(f.addressee_id, f.id)
                   ELSE decline_friend_request(f.addressee_id, f.id)
       /\ \A u \in UserIds, f \in friendships :
            (/\ u # f.addressee_id
             /\ \/ accept_friend_request(u, f.id)
                \/ decline_friend_request(u, f.id))
            => friendships' = friendships]_vars

\* A request has just been declined by its addressee, next to another row.
C14_Witness ==
    /\ resp.op = "decline_friend_request"
    /\ resp.status = 200
    /\ \E f, g \in friendships :
        f.id = resp.id /\ f.status = "declined" /\ g # f

\* The relationship_type the other side must see.
Mirrored(relationship) ==
    IF relationship = "pending_sent" THEN "pending_received"
    ELSE IF relationship = "pending_received" THEN "pending_sent"
    ELSE relationship

\* C15: for users A # B every result of get_friendship_status(A, B) and every
\* result of get_friendship_status(B, A) carry the same row and mirrored
\* relationship types (pending_sent against pending_received, the others
\* equal); get_friendship_status(A, A) is self.
C15_RelationshipMirrored ==
    \A a, b \in users :
        IF a = b
        THEN \A r \in GetFriendshipStatus(friendships, a, b) :
                r.relationship = "self"
        ELSE \A ra \in GetFriendshipStatus(friendships, a, b),
                rb \in GetFriendshipStatus(friendships, b, a) :
                /\ ra.friendship = rb.friendship
                /\ rb.relationship = Mirrored(ra.relationship)
                /\ ra.relationship
                    \in {"none", "friend", "pending_sent", "pending_received",
                         "blocked", "declined"}

\* The users joined to owner by an accepted row.
AcceptedFriendsOf(owner) ==
    {x \in users : x # owner /\ AcceptedBetween(friendships, owner, x) # {}}

\* C16: can_view_friends_list(viewer, owner) is true for viewer = owner;
\* otherwise true under public, false under private, and under friends_only
\* true exactly when an accepted row joins the two.
C16_CanViewMatchesFriendship ==
    \A viewer, owner \in users :
        \A b \in CanViewFriendsList(friendships, friends_list_visibility,
                                    viewer, owner) :
            b = (IF viewer = owner THEN TRUE
                 ELSE IF friends_list_visibility[owner] = "public" THEN TRUE
                 ELSE IF friends_list_visibility[owner] = "friends_only"
                 THEN AcceptedBetween(friendships, viewer, owner) # {}
                 ELSE FALSE)

\* The settings and rows under which viewer must be refused owner's list.
ViewDenied(viewer, owner) ==
    /\ viewer # owner
    /\ \/ friends_list_visibility[owner] = "private"
       \/ /\ friends_list_visibility[owner] = "friends_only"
          /\ AcceptedBetween(friendships, viewer, owner) = {}

\* The settings and rows under which viewer must be shown owner's list.
ViewGranted(viewer, owner) ==
    \/ viewer = owner
    \/ friends_list_visibility[owner] = "public"
    \/ /\ friends_list_visibility[owner] = "friends_only"
       /\ MatchingFriendships(friendships, viewer, owner) # {}
       /\ MatchingFriendships(friendships, viewer, owner)
            = AcceptedBetween(friendships, viewer, owner)

\* The ids a response lists.
Listed(friends) == {friends[i] : i \in DOMAIN friends}

\* What every answer to a listing request for an existing owner must
\* satisfy: no error, a refusal exactly when the settings and rows refuse, and
\* an empty list with total_count 0 on refusal.  (A listing changes no row, so
\* the answer in resp is about the rows of the same state.)
ListGate ==
    /\ resp.status = 200
    /\ ViewDenied(resp.request.current_user, resp.request.user_id)
        => ~resp.can_view
    /\ ViewGranted(resp.request.current_user, resp.request.user_id)
        => resp.can_view
    /\ ~resp.can_view => (resp.friends = <<>> /\ resp.total_count = 0)

\* C17 as written: get_user_friends_list for an existing owner never fails;
\* when the viewer may not see the list it answers an empty list with
\* total_count 0; when the viewer may, the list answered is exactly the
\* owner's accepted friends.
C17_ListIsAllFriendsOrEmpty ==
    (resp.op = "get_user_friends_list" /\ resp.request.user_id \in users)
    => /\ ListGate
       /\ resp.can_view
            => /\ Listed(resp.friends) = AcceptedFriendsOf(resp.request.user_id)
               /\ Len(resp.friends)
                    = Cardinality(AcceptedFriendsOf(resp.request.user_id))

\* The length of the page list[offset:offset + limit] of a list of n items.
PageLength(n, offset, limit) ==
    IF n - offset <= 0 THEN 0
    ELSE IF n - offset < limit THEN n - offset ELSE limit

\* C17 as amended: get_user_friends_list for an existing owner never fails;
\* when the viewer may not see the list it answers an empty list with
\* total_count 0; when the viewer may, total_count is the number of the
\* owner's accepted friends and the list is the page [offset, offset + limit)
\* of them: friends of the owner only, none twice, and all of them when
\* offset is 0 and limit is at least their number.
C17_ListIsPageOfFriendsOrEmpty ==
    (resp.op = "get_user_friends_list" /\ resp.request.user_id \in users)
    => /\ ListGate
       /\ resp.can_view
            => /\ resp.total_count
                    = Cardinality(AcceptedFriendsOf(resp.request.user_id))
               /\ Listed(resp.friends)
                    \subseteq AcceptedFriendsOf(resp.request.user_id)
               /\ Cardinality(Listed(resp.friends)) = Len(resp.friends)
               /\ Len(resp.friends)
                    = PageLength(resp.total_count, resp.request.offset,
                                 resp.request.limit)
               /\ (resp.request.offset = 0
                        /\ resp.request.limit >= resp.total_count)
                    => Listed(resp.friends)
                            = AcceptedFriendsOf(resp.request.user_id)

\* A stranger has just been answered the empty list of an owner who has a
\* friend and keeps the list to friends.
C17_Witness ==
    /\ resp.op = "get_user_friends_list"
    /\ resp.status = 200
    /\ ~resp.can_view
    /\ resp.friends = <<>>
    /\ resp.request.current_user # resp.request.user_id
    /\ friends_list_visibility[resp.request.user_id] = "friends_only"
    /\ AcceptedFriendsOf(resp.request.user_id) # {}

\* The answers of the two suggestion handlers.
SuggestionOps == {"get_friend_suggestions_endpoint", "explore_friends"}

\* C18: a suggestion list or an explore list answered to a user whose
\* discoverable_for_friends is false is empty, whatever rows and posts the
\* store holds.  (The handlers change nothing, so the answer in resp is about
\* the store of the same state.)
C18_HiddenUserGetsNothing ==
    (/\ resp.op \in SuggestionOps
     /\ ~discoverable_for_friends[resp.request.current_user])
    => resp.suggestions = <<>>

\* An explore request of a user who is not discoverable has just been
\* answered, over a store that holds a discoverable, unconnected user with a
\* positive score for them.
C18_Witness ==
    /\ resp.op = "explore_friends"
    /\ ~discoverable_for_friends[resp.request.current_user]
    /\ resp.suggestions = <<>>
    /\ \E c \in users \ {resp.request.current_user} :
        /\ discoverable_for_friends[c]
        /\ MatchingFriendships(friendships, resp.request.current_user, c) = {}
        /\ IsRecentlyActive(posts, c, now)

\* C19: no suggestion answered to a user names that user, a user whose
\* discoverable_for_friends is false, or a user joined to them by a row of
\* any status in either direction.
C19_SuggestionsAreStrangers ==
    resp.op \in SuggestionOps
    => \A i \in DOMAIN resp.suggestions :
        /\ resp.suggestions[i].user \in users
        /\ resp.suggestions[i].user # resp.request.current_user
        /\ discoverable_for_friends[resp.suggestions[i].user]
        /\ MatchingFriendships(friendships, resp.request.current_user,
                               resp.suggestions[i].user) = {}

\* A suggestion list has just been answered that names someone, over a store
\* in which a discoverable user joined to the requester is recently active.
C19_Witness ==
    /\ resp.op = "get_friend_suggestions_endpoint"
    /\ resp.suggestions # <<>>
    /\ \E c \in users \ {resp.request.current_user} :
        /\ MatchingFriendships(friendships, resp.request.current_user, c) # {}
        /\ IsRecentlyActive(posts, c, now)
        /\ discoverable_for_friends[c]

\* The users an accepted row joins to both a and b.
SharedFriends(a, b) ==
    {m \in users \ {a, b} :
        /\ AcceptedBetween(friendships, a, m) # {}
        /\ AcceptedBetween(friendships, b, m) # {}}

\* The values of a column among the published posts of user u.
PublishedCuisines(u) ==
    {p.cuisine_type : p \in {q \in posts :
        q.user_id = u /\ q.status = "published" /\ q.cuisine_type # None}}

PublishedDifficulties(u) ==
    {p.difficulty_level : p \in {q \in posts :
        q.user_id = u /\ q.status = "published" /\ q.difficulty_level # None}}

\* 10 x mutual friends + 5 x shared published cuisines + 3 x shared published
\* difficulty levels + 2 when b has a post created in the last RecentDays
\* days.
ExpectedScore(a, b) ==
    10 * Cardinality(SharedFriends(a, b))
    + 5 * Cardinality(PublishedCuisines(a) \cap PublishedCuisines(b))
    + 3 * Cardinality(PublishedDifficulties(a) \cap PublishedDifficulties(b))
    + (IF \E p \in posts : p.user_id = b /\ now - p.created_at <= RecentDays
       THEN 2 ELSE 0)

\* C20: for every requester and candidate calculate_suggestion_score gives
\* 10 x mutual friends + 5 x shared published cuisine types + 3 x shared
\* published difficulty levels + 2 if the candidate is recently active, and
\* every suggestion answered carries that score.
C20_ScoreIsWeightedSum ==
    /\ \A a, b \in users :
        a # b
        => \A sr \in CalculateSuggestionScore(friendships, posts, a, b, now) :
                sr.score = ExpectedScore(a, b)
    /\ resp.op = "get_friend_suggestions_endpoint"
        => \A i \in DOMAIN resp.suggestions :
            resp.suggestions[i].score
                = ExpectedScore(resp.request.current_user,
                                resp.suggestions[i].user)

\* A suggestion has just been answered for a candidate with 2 mutual
\* friends, 1 shared cuisine, no shared difficulty level and recent activity:
\* score 27.
C20_Witness ==
    /\ resp.op = "get_friend_suggestions_endpoint"
    /\ \E i \in DOMAIN resp.suggestions :
        /\ resp.suggestions[i].score = 27
        /\ resp.suggestions[i].mutual_friends_count = 2
        /\ Cardinality(resp.suggestions[i].common_cuisines) = 1
        /\ PublishedDifficulties(resp.request.current_user)
            \cap PublishedDifficulties(resp.suggestions[i].user) = {}
        /\ IsRecentlyActive(posts, resp.suggestions[i].user, now)

\* The users Suggest may name to requester a: registered, discoverable,
\* not a, and joined to a by no row.
Eligible(a) ==
    {c \in users \ {a} :
        /\ discoverable_for_friends[c]
        /\ MatchingFriendships(friendships, a, c) = {}}

\* The users a list of suggestions names.
Suggested(suggestions) ==
    {suggestions[i].user : i \in DOMAIN suggestions}

\* C21: Suggest(user, limit) returns only candidates with score > 0, in
\* non-increasing order of score, at most limit of them, and the
\* highest-scoring ones: an eligible candidate left out has no higher score
\* than any candidate returned, and a candidate with a positive score is
\* left out only when the list is full.
C21_TopScoresInOrder ==
    resp.op = "get_friend_suggestions_endpoint"
    => LET a == resp.request.current_user
           l == resp.suggestions
           out == Eligible(a) \ Suggested(l)
       IN  /\ \A i \in DOMAIN l : l[i].score > 0
           /\ \A i, j \in DOMAIN l : i < j => l[i].score >= l[j].score
           /\ Len(l) <= resp.request.limit
           /\ \A i, j \in DOMAIN l : l[i].user = l[j].user => i = j
           /\ \A c \in out : \A i \in DOMAIN l :
                ExpectedScore(a, c) <= l[i].score
           /\ Len(l) < resp.request.limit
                => \A c \in out : ExpectedScore(a, c) <= 0

\* Suggest has just answered a full list of one and left out an eligible
\* candidate with a positive, lower score.
C21_Witness ==
    /\ resp.op = "get_friend_suggestions_endpoint"
    /\ resp.request.limit = 1
    /\ Len(resp.suggestions) = 1
    /\ \E c \in Eligible(resp.request.current_user) :
        /\ c \notin Suggested(resp.suggestions)
        /\ ExpectedScore(resp.request.current_user, c) > 0
        /\ ExpectedScore(resp.request.current_user, c)
            < resp.suggestions[1].score

\* User c has posts and none of them is published.
OnlyUnpublished(c) ==
    /\ PostsOf(posts, c) # {}
    /\ \A p \in PostsOf(posts, c) : p.status # "published"

\* C22: only published posts feed the suggestion signals: a candidate whose
\* posts are all draft or archived gets nothing from shared cuisines, shared
\* difficulty levels or recent activity, so Suggest names such a candidate
\* only for a mutual friend and with the score 10 x mutual friends.
C22_OnlyPublishedFeedSignals ==
    resp.op = "get_friend_suggestions_endpoint"
    => \A i \in DOMAIN resp.suggestions :
        LET a == resp.request.current_user
            c == resp.suggestions[i].user
        IN  OnlyUnpublished(c)
            => /\ SharedFriends(a, c) # {}
               /\ resp.suggestions[i].score
                    = 10 * Cardinality(SharedFriends(a, c))

\* Sequence l takes its elements, in order, from sequence from.
TakenInOrder(l, from) ==
    \E f \in [DOMAIN l -> DOMAIN from] :
        /\ \A i, j \in DOMAIN l : i < j => f[i] < f[j]
        /\ \A i \in DOMAIN l : from[f[i]] = l[i]

\* C23: Explore with a cuisine filter returns only candidates who share with
\* the requester a published cuisine equal to the filter up to letter case,
\* returns at most limit of them, and takes them, in order, from a list
\* Suggest can return for 2 x limit.
C23_ExploreFiltersTopOfSuggest ==
    (resp.op = "explore_friends" /\ resp.request.cuisine_filter # None)
    => LET a == resp.request.current_user
           l == resp.suggestions
       IN  /\ \A i \in DOMAIN l :
                Lower(resp.request.cuisine_filter)
                    \in {Lower(x) : x \in PublishedCuisines(a)
                                        \cap PublishedCuisines(l[i].user)}
           /\ Len(l) <= resp.request.limit
           /\ \E from \in GetFriendSuggestions(friendships, posts,
                            discoverable_for_friends, a,
                            2 * resp.request.limit, now) :
                TakenInOrder(l, from)

\* Explore with filter "ITALIAN" has just answered a candidate and passed
\* over an eligible one with a higher score who shares no italian post.
C23_Witness ==
    /\ resp.op = "explore_friends"
    /\ resp.request.cuisine_filter = "ITALIAN"
    /\ Len(resp.suggestions) = 1
    /\ \E c \in Eligible(resp.request.current_user) :
        /\ c \notin Suggested(resp.suggestions)
        /\ "italian" \notin PublishedCuisines(c)
        /\ ExpectedScore(resp.request.current_user, c)
            > resp.suggestions[1].score

\* The cooldowns, in months, the policy is asked about.
Months == {1, 2, 3}

\* C24: CanChangeUsername(user, cooldownMonths) allows the change exactly
\* when the user has no last-changed timestamp or at least cooldownMonths x
\* 30 days have passed since it, which is exactly when now >=
\* NextEligibleDate(user, cooldownMonths); with 3 months, 89 days are not
\* enough and 91 days are.
C24_AllowedIffWaitElapsed ==
    /\ \A u \in users, months \in Months :
        LET user == accounts[u]
            waited ==
                \/ user.username_last_changed = NoTime
                \/ now - user.username_last_changed
                    >= months * 30 * TicksPerDay
        IN  /\ CanChangeUsername(user, months, now).can_change <=> waited
            /\ waited <=> now >= GetNextUsernameChangeDate(user, months, now)
    /\ resp.op = "get_username_change_info"
        => LET last == accounts[resp.id].username_last_changed
           IN  /\ resp.can_change
                    <=> (last = NoTime \/ now - last >= 90 * TicksPerDay)
               /\ (last # NoTime /\ now - last = 89 * TicksPerDay)
                    => ~resp.can_change
               /\ (last # NoTime /\ now - last = 91 * TicksPerDay)
                    => resp.can_change

\* The info of a user who changed the username exactly 90 days ago has just
\* been answered: the change is allowed.
C24_Witness ==
    /\ resp.op = "get_username_change_info"
    /\ accounts[resp.id].username_last_changed # NoTime
    /\ now - accounts[resp.id].username_last_changed = 90 * TicksPerDay
    /\ resp.can_change

\* The least whole number of days that covers a positive number of instants.
CeilDays(instants) == (instants + TicksPerDay - 1) \div TicksPerDay

\* C25: when the change is not allowed, daysRemaining is the ceiling of the
\* remaining wait in days and at least 1; a remaining wait of exactly N days
\* gives N.
C25_DaysRemainingIsCeiling ==
    (resp.op = "get_username_change_info" /\ ~resp.can_change)
    => LET remaining == accounts[resp.id].username_last_changed
                            + 90 * TicksPerDay - now
       IN  /\ resp.days_until_eligible = CeilDays(remaining)
           /\ resp.days_until_eligible >= 1

\* User u has not changed the username since registering: its last-changed
\* timestamp is still the one registration left (a change is stamped at
\* least a cooldown later).
NeverChanged(u) ==
    accounts[u].username_last_changed
        \in {NoTime, accounts[u].created_at}

\* C26: a user who has never changed the username since registering is
\* allowed to change it, with daysRemaining 0, at any time after
\* registration: the info says so and no update of such a user is refused
\* for the cooldown.
C26_FirstChangeFree ==
    /\ (resp.op = "get_username_change_info" /\ NeverChanged(resp.id))
        => resp.can_change
    /\ (resp.op = "update_current_user" /\ NeverChanged(resp.id))
        => resp.detail # "Username can only be changed every 3 months"

\* C27: the cooldown gates only the username: an update that supplies a bio
\* or a profile image has them stored unless it is refused because the
\* username is taken; the cooldown never keeps them from being applied.
C27_CooldownGatesOnlyUsername ==
    (resp.op = "update_current_user"
        /\ resp.detail # "Username already taken")
    => /\ resp.request.bio # None
            => accounts[resp.id].bio = resp.request.bio
       /\ resp.request.profile_image_url # None
            => accounts[resp.id].profile_image_url
                = resp.request.profile_image_url

\* C28: after a user is deleted no post has that user as owner and no row of
\* friendships has that user as requester or addressee, whatever its status
\* and side, in every later state; the delete removes exactly those rows and
\* posts and leaves the others as they were.
C28_DeleteCascades ==
    [][/\ \A f \in friendships' :
            f.requester_id \in users' /\ f.addressee_id \in users'
       /\ \A p \in posts' : p.user_id \in users'
       /\ \A u \in users \ users' :
            /\ friendships' = {f \in friendships :
                                u \notin {f.requester_id, f.addressee_id}}
            /\ posts' = {p \in posts : p.user_id # u}]_vars

\* User 1 has just been deleted; a row between the two other users and the
\* post of user 2 are still there.
C28_Witness ==
    /\ resp.op = "delete_current_user_account"
    /\ resp.status = 200
    /\ 1 \notin users
    /\ friendships # {}
    /\ posts # {}

\* The row with id i, if it is pending.
PendingById(i) == {f \in friendships : f.id = i /\ f.status = "pending"}

\* The outcome is an error and the table is as it was.
Rejected == resp'.status >= 400 /\ friendships' = friendships

\* C29: every friendship mutation whose precondition on the current state or
\* on the caller's role does not hold is rejected with an error and leaves
\* the table of friendships as it was: SendRequest to oneself, to a missing
\* user or over an existing row; Respond or Cancel on a row that is missing,
\* not pending or not the caller's to settle; Unfriend without an accepted
\* row; Block of oneself, of a missing user or over a blocked row; Unblock
\* without a blocked row.
C29_FailedPreconditionRejected ==
    [][/\ \A u, t \in UserIds :
            /\ (resp'.op = "send_friend_request" /\ send_friend_request(u, t)
                    /\ (u = t \/ t \notin users
                        \/ MatchingFriendships(friendships, u, t) # {}))
                => Rejected
            /\ (resp'.op = "remove_friend" /\ remove_friend(u, t)
                    /\ (u = t \/ AcceptedBetween(friendships, u, t) = {}))
                => Rejected
            /\ (resp'.op = "block_user" /\ block_user(u, t)
                    /\ (u = t \/ t \notin users
                        \/ BlockedBetween(friendships, u, t) # {}))
                => Rejected
            /\ (resp'.op = "unblock_user" /\ unblock_user(u, t)
                    /\ (u = t \/ BlockedBetween(friendships, u, t) = {}))
                => Rejected
       /\ \A u \in UserIds, i \in FriendshipIds :
            /\ (resp'.op = "accept_friend_request"
                    /\ accept_friend_request(u, i)
                    /\ \A f \in PendingById(i) : f.addressee_id # u)
                => Rejected
            /\ (resp'.op = "decline_friend_request"
                    /\ decline_friend_request(u, i)
                    /\ \A f \in PendingById(i) : f.addressee_id # u)
                => Rejected
            /\ (resp'.op = "cancel_friend_request"
                    /\ cancel_friend_request(u, i)
                    /\ \A f \in PendingById(i) : f.requester_id # u)
                => Rejected]_vars

\* C30: when the addressee's accept and the requester's cancel of one
\* pending request run concurrently, their reads and writes interleaved in
\* any order, at most one of them succeeds, and the table is as the one that
\* succeeded left it: the row accepted, or no row.
C30_AcceptCancelExclusive ==
    \A p, q \in Procs :
        (/\ inflight[p].pc = "done"
         /\ inflight[q].pc = "done"
         /\ inflight[p].out.op = "accept_friend_request"
         /\ inflight[q].out.op = "cancel_friend_request"
         /\ inflight[p].arg = inflight[q].arg)
        => /\ ~(inflight[p].out.status = 200 /\ inflight[q].out.status = 200)
           /\ inflight[p].out.status = 200
                => \E f \in friendships :
                        f.id = inflight[p].arg /\ f.status = "accepted"
           /\ inflight[q].out.status = 200
                => \A f \in friendships : f.id # inflight[q].arg

\* C31: when block_user(A, B) and block_user(B, A) run concurrently on a
\* pair without a row, their reads and inserts interleaved in any order, the
\* pair ends with exactly one row, it is blocked, and one of the two users is
\* its requester (the blocker).
C31_ConcurrentBlocksLeaveOneEdge ==
    \A p, q \in Procs :
        (/\ p # q
         /\ inflight[p].pc = "done" /\ inflight[q].pc = "done"
         /\ inflight[p].out.op = "block_user"
         /\ inflight[q].out.op = "block_user"
         /\ inflight[p].user # inflight[p].arg
         /\ inflight[q].user = inflight[p].arg
         /\ inflight[q].arg = inflight[p].user
         /\ inflight[p].arg \in users
         /\ inflight[p].row = NoFriendship
         /\ inflight[q].row = NoFriendship
         /\ \A f \in MatchingFriendships(friendships, inflight[p].user,
                                         inflight[p].arg) :
                f.status = "blocked")
        => Cardinality(MatchingFriendships(friendships, inflight[p].user,
                                           inflight[p].arg)) = 1

\* The status code the claim gives a request to settle the row f by user u,
\* where role is the user the row requires: 404 without a row, 403 for any
\* other caller whatever the row's status, 400 for the right caller on a row
\* that is not pending, 200 otherwise.
SettleStatus(f, role, u) ==
    IF f = NoFriendship THEN 404
    ELSE IF role # u THEN 403
    ELSE IF f.status # "pending" THEN InvalidStateStatus
    ELSE 200

\* C32: accept, decline and cancel report distinguishable failures: 404
\* when the request id names no row, 403 when the caller is not the row's
\* addressee (accept, decline) or requester (cancel), whatever its status,
\* and 400 when the caller is, but the row is not pending.
C32_SettleFailuresDistinguished ==
    [][\A u \in UserIds, i \in FriendshipIds :
        LET f == FriendshipById(friendships, i)
        IN  /\ (resp'.op = "accept_friend_request"
                    /\ accept_friend_request(u, i))
                => resp'.status = SettleStatus(f, f.addressee_id, u)
            /\ (resp'.op = "decline_friend_request"
                    /\ decline_friend_request(u, i))
                => resp'.status = SettleStatus(f, f.addressee_id, u)
            /\ (resp'.op = "cancel_friend_request"
                    /\ cancel_friend_request(u, i))
                => resp'.status = SettleStatus(f, f.requester_id, u)]_vars

\* A cancel was refused as forbidden while no row of the table was pending:
\* the caller was not the requester of a row that is accepted, declined or
\* blocked.
C32_Witness ==
    /\ resp.op = "cancel_friend_request"
    /\ resp.status = 403
    /\ friendships # {}
    /\ \A f \in friendships : f.status # "pending"

\* C33: a post's status moves only along draft -> published -> archived and
\* archived -> published: under create, update, publish, archive and
\* unarchive no post goes from published or archived back to draft, and none
\* goes from draft directly to archived.
C33_StatusFollowsLifecycle ==
    [][\A before \in posts, after \in posts' :
        before.id = after.id
        => /\ ~(before.status \in {"published", "archived"}
                    /\ after.status = "draft")
           /\ ~(before.status = "draft" /\ after.status = "archived")]_vars

\* The request was refused as forbidden and the table of posts is as it was.
Forbidden == resp'.status = 403 /\ posts' = posts

\* C34: only a post's owner can mutate it: update, publish, archive,
\* unarchive and delete by any other user fail and leave the post (status,
\* fields, timestamps) as it was.
C34_OnlyOwnerMutates ==
    [][\A post \in posts : \A u \in users \ {post.user_id} :
        /\ \A d \in PostUpdates :
            (resp'.op = "update_post" /\ update_post(u, post.id, d))
                => Forbidden
        /\ (resp'.op = "publish_post" /\ publish_post(u, post.id))
                => Forbidden
        /\ (resp'.op = "archive_post" /\ archive_post(u, post.id))
                => Forbidden
        /\ (resp'.op = "unarchive_post" /\ unarchive_post(u, post.id))
                => Forbidden
        /\ (resp'.op = "delete_post" /\ delete_post(u, post.id))
                => Forbidden]_vars

\* A delete was refused as forbidden: every post of the table (there is one)
\* belongs to the same user, so the caller was the other one.
C34_Witness ==
    /\ resp.op = "delete_post"
    /\ resp.status = 403
    /\ posts # {}
    /\ \A a, b \in posts : a.user_id = b.user_id

\* C37: in every state reachable by create, update, publish, archive and
\* unarchive, every post whose status is published has a published_at.
C37_PublishedHasPublishedAt ==
    \A post \in posts : post.status = "published" => post.published_at # NoTime

\* C35: only the user recorded as blocker can lift a block: when the rows of
\* a pair are blocked rows whose requester is t, an unblock_user by the
\* blocked user u against t fails and leaves the table as it was.
C35_OnlyBlockerUnblocks ==
    [][\A u, t \in UserIds :
        (/\ resp'.op = "unblock_user"
         /\ unblock_user(u, t)
         /\ u # t
         /\ MatchingFriendships(friendships, u, t) # {}
         /\ \A f \in MatchingFriendships(friendships, u, t) :
                f.status = "blocked" /\ f.requester_id = t)
        => (resp'.status >= 400 /\ friendships' = friendships)]_vars

\* A send_friend_request by u to t issued in this state can succeed.
SendWouldSucceed(u, t) ==
    \E r \in GetFriendshipStatus(friendships, u, t) :
        /\ SendRejection(u, t, r) = NoResponse
        /\ SendInsert(friendships, nextFriendshipId, u, t).out.status = 201

\* C36: the relationship-status query agrees with send_friend_request: for
\* every caller and existing target it reports can_send_request = true
\* exactly when a send_friend_request by that caller to that target issued
\* in the same state would succeed.
C36_CanSendMatchesSend ==
    (/\ resp.op = "get_friendship_status_endpoint"
     /\ resp.code = 200)
    => (resp.can_send_request
            <=> SendWouldSucceed(resp.request.current_user,
                                 resp.request.user_id))

\* The step is the update_current_user request that resp' answers.
UpdateStep ==
    /\ resp'.op = "update_current_user"
    /\ update_current_user(resp'.request.current_user, resp'.request.username,
                           resp'.request.bio, resp'.request.profile_image_url)

\* C38: while fewer than 3 x 30 days have passed since a user's
\* username_last_changed, every update that asks for a different username is
\* refused and changes neither; a step that changes a username stamps it
\* with the instant of the step, and no other step moves the stamp of a
\* registered user, so two successful changes of one user are at least 90
\* days apart; an update that supplies the current username is accepted and
\* leaves the stamp as it was.
C38_ChangesNinetyDaysApart ==
    [][\A u \in users :
        LET user == accounts[u]
            asked == resp'.request.username
        IN  /\ (/\ UpdateStep
                /\ resp'.request.current_user = u
                /\ asked # None /\ asked # user.username
                /\ user.username_last_changed # NoTime
                /\ now - user.username_last_changed
                        < CooldownMonths * 30 * TicksPerDay)
                => /\ resp'.status = 400
                   /\ accounts'[u].username = user.username
                   /\ accounts'[u].username_last_changed
                        = user.username_last_changed
            /\ (UpdateStep /\ resp'.request.current_user = u
                    /\ asked = user.username)
                => /\ resp'.status = 200
                   /\ accounts'[u].username = user.username
                   /\ accounts'[u].username_last_changed
                        = user.username_last_changed
            /\ (u \in users' /\ accounts'[u].username # user.username)
                => /\ UpdateStep
                   /\ resp'.request.current_user = u
                   /\ accounts'[u].username_last_changed = now
                   /\ (user.username_last_changed = NoTime
                        \/ now - user.username_last_changed
                            >= CooldownMonths * 30 * TicksPerDay)
            /\ (u \in users' /\ accounts'[u].username_last_changed
                                    # user.username_last_changed)
                => accounts'[u].username # user.username]_vars

\* A user registered at instant 0 changed the username 90 days later, and
\* the next instant an update asking for another username was refused.
C38_Witness ==
    /\ resp.op = "update_current_user"
    /\ resp.status = 400
    /\ resp.days_remaining > 0
    /\ now = 90 * TicksPerDay + 1
    /\ accounts[resp.request.current_user].created_at = 0
    /\ accounts[resp.request.current_user].username_last_changed
            = 90 * TicksPerDay

\* C39: a post that is not published is never returned to a user other than
\* its owner: get_post by a non-owner answers as for a missing post (404,
\* "Post not found", no post), and get_public_posts lists only posts that
\* are published.
C39_UnpublishedStaysPrivate ==
    /\ resp.op = "get_post"
        => LET post == PostById(posts, resp.request.post_id)
           IN  (/\ post # NoPost
                /\ post.status # "published"
                /\ post.user_id # resp.request.current_user)
               => /\ resp.status = 404
                  /\ resp.detail = "Post not found"
                  /\ resp.post = NoPost
    /\ resp.op = "get_public_posts"
        => \A i \in DOMAIN resp.posts :
            /\ resp.posts[i].status = "published"
            /\ PostById(posts, resp.posts[i].id).status = "published"

\* get_post answered 404 for an archived post that exists, to a user who is
\* not its owner, while the feed has a published post to list.
C39_Witness ==
    /\ resp.op = "get_post"
    /\ resp.status = 404
    /\ PostById(posts, resp.request.post_id).status = "archived"
    /\ PostById(posts, resp.request.post_id).user_id
            # resp.request.current_user
    /\ \E q \in posts : q.status = "published"

\* C40: no row of friendships has its requester as its addressee: after any
\* sequence of requests, the swap of block_user included, every row joins
\* two distinct users, and no user is in their own friends list or list of
\* blocked users.
C40_NoSelfEdge ==
    /\ \A f \in friendships : f.requester_id # f.addressee_id
    /\ \A u \in users :
        /\ u \notin FriendIds(friendships, u)
        /\ u \notin GetBlockedUsers(friendships, u)

\* A block of oneself was refused while the table holds a blocked row next
\* to another row.
C40_Witness ==
    /\ resp.op = "block_user"
    /\ resp.detail = "Cannot block yourself"
    /\ \E f, g \in friendships : f.status = "blocked" /\ g # f

====
